---- MODULE Spec2Model ----
(***************************************************************************)
(* Ledger engines of the portfolio tracker: the cost-basis calculator      *)
(* (transactions/cost_basis.py), the schema migrations that own its table  *)
(* (database/migrations.py) and the snapshot inference engine              *)
(* (transactions/snapshot_inference.py).                                   *)
(*                                                                         *)
(* Quantities are whole shares and money is integer cents, so that the     *)
(* Decimal arithmetic of the code (exact, quantized to 0.01 half-up) is    *)
(* integer arithmetic here.  Dates are day numbers; ISO dates of one       *)
(* format order as their day numbers do.                                   *)
(***************************************************************************)
EXTENDS Integers, Sequences, FiniteSets, TLC

VARIABLES
    sqlite3,         \* the names the imported sqlite3 module defines
    self_method,     \* CostBasisCalculator.method of the calculator in use
    cost_basis,      \* rows of table cost_basis, in id order (id = position)
    schema_version,  \* MAX(version) of table schema_version: 1 or 2
    ncalls,          \* number of calls made so far
    last,            \* the last call: operation, arguments, exception, result
    snapshots,       \* rows of table snapshots
    holdings,        \* rows of table holdings
    inferred,        \* outcome of the last compare_snapshots call
    transactions,    \* rows of table transactions, in id order (id = position)
    benchmark_data,  \* rows of table benchmark_data of the benchmark in use
    cache            \* DataEnricher._cache of the enricher in use

vars == <<sqlite3, self_method, cost_basis, schema_version, ncalls, last,
          snapshots, holdings, inferred, transactions, benchmark_data, cache>>

\* an enricher that has fetched nothing yet: self._cache = {}
NoCache == [t \in {} |-> t]

cbVars == <<self_method, cost_basis, schema_version>>
infVars == <<snapshots, holdings, inferred>>
storeVars == <<transactions, benchmark_data>>

----------------------------------------------------------------------------
(* Bounds of the model *)

MaxCalls == 3
MaxDate == 2

None == "None"

Accounts == {"A1", "A2"}
TickerInputs == {"aapl", "MSFT"}
Dates == 1..MaxDate
Quantities == {0, 30, 40}
CostsPerShare == {1000, 1200}
SaleQuantities == {0, 20, 50, 80}
SalePrices == {1500}
BasisQuantities == {0, 50}
MethodInputs == {"FIFO", "lifo", "average", "SPECIFIC_ID", "HIFO", ""}

----------------------------------------------------------------------------
(* Python and sqlite3 primitives used by the code *)

\* str.upper() on the strings of the model
upper(s) ==
    CASE s = "lifo" -> "LIFO"
      [] s = "average" -> "AVERAGE"
      [] s = "aapl" -> "AAPL"
      [] OTHER -> s

\* the names of the sqlite3 module that the code refers to and the module
\* defines: the factory function connect, the class Connection, ...; the
\* module defines no name Connect
sqlite3_names == {"connect", "Connection", "Row", "IntegrityError"}

\* Decimal(n/d).quantize(Decimal('0.01'), ROUND_HALF_UP) in cents, n >= 0, d > 0
quantize(n, d) == (2 * n + d) \div (2 * d)

Min(a, b) == IF a <= b THEN a ELSE b

\* the elements of a list
Range(s) == {s[i] : i \in DOMAIN s}

RECURSIVE SumOver(_, _, _)
SumOver(f(_), s, i) == IF i > Len(s) THEN 0 ELSE f(s[i]) + SumOver(f, s, i + 1)

----------------------------------------------------------------------------
(* CostBasisCalculator *)

\* a METHODS list of the methods calculate_cost_basis implements
METHODS_implemented_only == {"FIFO", "LIFO", "AVERAGE"}

METHODS == {"FIFO", "LIFO", "AVERAGE", "SPECIFIC_ID"}

\* _get_connection: looks up sqlite3.Connect and calls it
CostBasis_get_connection ==
    IF "Connect" \in sqlite3 THEN "ok" ELSE "AttributeError"

\* the WHERE clause of get_lots
LotMatches(row, ticker, account_id, include_closed) ==
    /\ row.ticker = upper(ticker)
    /\ (account_id # None => row.account_id = account_id)
    /\ (~include_closed => ~row.is_closed)

\* get_lots: the rows that match, ORDER BY acquisition_date ASC.  SQL leaves
\* the order of rows of equal acquisition_date open: every such order is a
\* possible answer.
get_lots(rows, ticker, account_id, include_closed) ==
    LET ids == {i \in 1..Len(rows) :
                    LotMatches(rows[i], ticker, account_id, include_closed)}
        n == Cardinality(ids)
    IN {[k \in 1..n |-> rows[o[k]]] :
            o \in {p \in [1..n -> ids] :
                     /\ \A a, b \in 1..n : a # b => p[a] # p[b]
                     /\ \A a, b \in 1..n : a < b =>
                          rows[p[a]].acquisition_date <= rows[p[b]].acquisition_date}}

\* the loop of record_sale over the lots, from position i with remaining_to_sell
\* left: the UPDATEs it issues, the cost basis and what is still left to sell
RECURSIVE SaleLoop(_, _, _)
SaleLoop(lots, i, remaining_to_sell) ==
    IF i > Len(lots) \/ remaining_to_sell <= 0
    THEN [updates |-> <<>>, cost |-> 0, left |-> remaining_to_sell]
    ELSE LET lot == lots[i]
             lot_remaining == lot.remaining_quantity
             qty_from_lot == Min(remaining_to_sell, lot_remaining)
             cost_from_lot == qty_from_lot * lot.cost_per_share
             new_remaining == lot_remaining - qty_from_lot
             rest == SaleLoop(lots, i + 1, remaining_to_sell - qty_from_lot)
         IN [updates |-> <<[lot_id |-> lot.id,
                            quantity_sold |-> qty_from_lot,
                            cost_per_share |-> lot.cost_per_share,
                            acquisition_date |-> lot.acquisition_date,
                            remaining_quantity |-> new_remaining,
                            is_closed |-> (new_remaining = 0)]>> \o rest.updates,
             cost |-> cost_from_lot + rest.cost,
             left |-> rest.left]

\* UPDATE cost_basis SET remaining_quantity = ?, is_closed = ? WHERE id = ?
ApplyUpdates(rows, updates) ==
    [i \in 1..Len(rows) |->
        IF \E k \in 1..Len(updates) : updates[k].lot_id = rows[i].id
        THEN LET k == CHOOSE k \in 1..Len(updates) : updates[k].lot_id = rows[i].id
             IN [rows[i] EXCEPT !.remaining_quantity = updates[k].remaining_quantity,
                                !.is_closed = updates[k].is_closed]
        ELSE rows[i]]

\* the lots_affected entries of the result of record_sale
LotsAffected(updates) ==
    [k \in 1..Len(updates) |->
        [lot_id |-> updates[k].lot_id,
         quantity_sold |-> updates[k].quantity_sold,
         cost_per_share |-> updates[k].cost_per_share,
         acquisition_date |-> updates[k].acquisition_date]]

\* the loop of calculate_fifo and calculate_lifo: cost of current_quantity
\* shares taken from the lots in the order given
RECURSIVE CostLoop(_, _, _)
CostLoop(lots, i, remaining_qty) ==
    IF i > Len(lots) \/ remaining_qty <= 0 THEN 0
    ELSE LET qty_from_lot == Min(remaining_qty, lots[i].remaining_quantity)
         IN qty_from_lot * lots[i].cost_per_share
              + CostLoop(lots, i + 1, remaining_qty - qty_from_lot)

Reversed(s) == [k \in 1..Len(s) |-> s[Len(s) + 1 - k]]

\* calculate_fifo on the lots get_lots returned
calculate_fifo(lots, current_quantity) ==
    IF lots = <<>> THEN <<0, 0>>
    ELSE LET total_cost == CostLoop(lots, 1, current_quantity)
         IN <<quantize(total_cost, 1),
              IF current_quantity > 0 THEN quantize(total_cost, current_quantity) ELSE 0>>

\* calculate_lifo on the lots get_lots returned
calculate_lifo(lots, current_quantity) ==
    IF lots = <<>> THEN <<0, 0>>
    ELSE LET total_cost == CostLoop(Reversed(lots), 1, current_quantity)
         IN <<quantize(total_cost, 1),
              IF current_quantity > 0 THEN quantize(total_cost, current_quantity) ELSE 0>>

RemainingOf(lot) == lot.remaining_quantity
TotalCostOf(lot) == lot.total_cost

\* calculate_average on the lots get_lots returned
calculate_average(lots, current_quantity) ==
    IF lots = <<>> THEN <<0, 0>>
    ELSE LET total_shares == SumOver(RemainingOf, lots, 1)
             total_cost == SumOver(TotalCostOf, lots, 1)
         IN IF total_shares = 0 THEN <<0, 0>>
            ELSE LET avg_cost_per_share == quantize(total_cost, total_shares)
                 IN <<quantize(current_quantity * avg_cost_per_share, 1),
                      avg_cost_per_share>>

NoCall == [op |-> "none", args |-> <<>>, raised |-> "none", result |-> <<>>,
           queried |-> FALSE]

Call(op, args, raised, result, queried) ==
    [op |-> op, args |-> args, raised |-> raised, result |-> result,
     queried |-> queried]

\* __init__(db_path, method): a new calculator replaces the one in use when
\* the constructor returns
Construct(method) ==
    /\ ncalls < MaxCalls
    /\ ncalls' = ncalls + 1
    /\ IF upper(method) \notin METHODS
       THEN /\ self_method' = self_method
            /\ last' = Call("construct", [method |-> method], "ValueError", <<>>, FALSE)
       ELSE /\ self_method' = upper(method)
            /\ last' = Call("construct", [method |-> method], "none", <<>>, FALSE)
    /\ UNCHANGED <<cost_basis, schema_version, infVars, storeVars, sqlite3, cache>>

\* create_lot(account_id, ticker, acquisition_date, quantity, cost_per_share)
create_lot(account_id, ticker, acquisition_date, quantity, cost_per_share) ==
    /\ ncalls < MaxCalls
    /\ ncalls' = ncalls + 1
    /\ LET total_cost == quantize(quantity * cost_per_share, 1)
           args == [account_id |-> account_id, ticker |-> ticker,
                    acquisition_date |-> acquisition_date, quantity |-> quantity,
                    cost_per_share |-> cost_per_share]
           lot_id_result == Len(cost_basis) + 1
       IN IF CostBasis_get_connection # "ok"
          THEN /\ cost_basis' = cost_basis
               /\ last' = Call("create_lot", args, CostBasis_get_connection, <<>>, FALSE)
          ELSE IF schema_version < 2
          THEN /\ cost_basis' = cost_basis
               /\ last' = Call("create_lot", args, "OperationalError", <<>>, FALSE)
          ELSE /\ cost_basis' = Append(cost_basis,
                     [id |-> lot_id_result,
                      account_id |-> account_id,
                      ticker |-> upper(ticker),
                      acquisition_date |-> acquisition_date,
                      quantity |-> quantity,
                      cost_per_share |-> cost_per_share,
                      total_cost |-> total_cost,
                      method |-> self_method,
                      remaining_quantity |-> quantity,
                      is_closed |-> FALSE])
               /\ last' = Call("create_lot", args, "none", lot_id_result, FALSE)
    /\ UNCHANGED <<self_method, schema_version, infVars, storeVars, sqlite3, cache>>

\* record_sale(ticker, quantity_sold, sale_price, sale_date, account_id)
record_sale(ticker, quantity_sold, sale_price, account_id) ==
    /\ ncalls < MaxCalls
    /\ ncalls' = ncalls + 1
    /\ LET args == [ticker |-> ticker, quantity_sold |-> quantity_sold,
                    sale_price |-> sale_price, account_id |-> account_id,
                    method |-> self_method]
       IN IF CostBasis_get_connection # "ok"
          THEN /\ cost_basis' = cost_basis
               /\ last' = Call("record_sale", args, CostBasis_get_connection, <<>>, FALSE)
          ELSE IF schema_version < 2
          THEN /\ cost_basis' = cost_basis
               /\ last' = Call("record_sale", args, "OperationalError", <<>>, FALSE)
          ELSE \E lots \in get_lots(cost_basis, ticker, account_id, FALSE) :
               IF lots = <<>>
               THEN /\ cost_basis' = cost_basis
                    /\ last' = Call("record_sale", args, "ValueError", "no lots", TRUE)
               ELSE LET loop == SaleLoop(lots, 1, quantity_sold)
                        total_proceeds == quantity_sold * sale_price
                    IN IF loop.left > 0
                       THEN \* conn.rollback(): no UPDATE is kept
                            /\ cost_basis' = cost_basis
                            /\ last' = Call("record_sale", args, "ValueError",
                                            "insufficient", TRUE)
                       ELSE \* conn.commit()
                            /\ cost_basis' = ApplyUpdates(cost_basis, loop.updates)
                            /\ last' = Call("record_sale", args, "none",
                                  [quantity_sold |-> quantity_sold,
                                   sale_price |-> sale_price,
                                   total_proceeds |-> total_proceeds,
                                   cost_basis |-> quantize(loop.cost, 1),
                                   gain_loss |-> total_proceeds - loop.cost,
                                   lots_affected |-> LotsAffected(loop.updates)],
                                  TRUE)
    /\ UNCHANGED <<self_method, schema_version, infVars, storeVars, sqlite3, cache>>

\* calculate_cost_basis(ticker, current_quantity, account_id, method)
calculate_cost_basis(ticker, current_quantity, account_id, method) ==
    /\ ncalls < MaxCalls
    /\ ncalls' = ncalls + 1
    /\ LET calc_method == IF method # None /\ method # ""
                          THEN upper(method) ELSE self_method
           args == [ticker |-> ticker, current_quantity |-> current_quantity,
                    account_id |-> account_id, method |-> method,
                    calc_method |-> calc_method]
       IN IF calc_method \notin {"FIFO", "LIFO", "AVERAGE"}
          THEN last' = Call("calculate_cost_basis", args, "ValueError", <<>>, FALSE)
          ELSE IF CostBasis_get_connection # "ok"
          THEN last' = Call("calculate_cost_basis", args, CostBasis_get_connection,
                            <<>>, FALSE)
          ELSE IF schema_version < 2
          THEN last' = Call("calculate_cost_basis", args, "OperationalError", <<>>, FALSE)
          ELSE \E lots \in get_lots(cost_basis, ticker, account_id, FALSE) :
               last' = Call("calculate_cost_basis", args, "none",
                            CASE calc_method = "FIFO" ->
                                     calculate_fifo(lots, current_quantity)
                              [] calc_method = "LIFO" ->
                                     calculate_lifo(lots, current_quantity)
                              [] OTHER ->
                                     calculate_average(lots, current_quantity),
                            TRUE)
    /\ UNCHANGED <<cbVars, infVars, storeVars, sqlite3, cache>>

----------------------------------------------------------------------------
(* MigrationManager *)

\* rollback_to_v1: DROP TABLE IF EXISTS cost_basis (and the other tables of
\* version 2), DELETE FROM schema_version WHERE version = 2
rollback_to_v1 ==
    /\ ncalls < MaxCalls
    /\ ncalls' = ncalls + 1
    /\ cost_basis' = <<>>
    /\ transactions' = <<>>
    /\ benchmark_data' = <<>>
    /\ schema_version' = 1
    /\ last' = Call("rollback_to_v1", <<>>, "none", <<>>, FALSE)
    /\ UNCHANGED <<self_method, infVars, sqlite3, cache>>

\* a migrate that creates the tables of version 2 anew
migrate_recreating_tables ==
    /\ ncalls < MaxCalls
    /\ ncalls' = ncalls + 1
    /\ cost_basis' = <<>>
    /\ schema_version' = 2
    /\ last' = Call("migrate", <<>>, "none", <<>>, FALSE)
    /\ UNCHANGED <<self_method, infVars, storeVars, sqlite3, cache>>

\* migrate(): returns when the database is at version 2 already, else
\* migrate_to_v2: CREATE TABLE IF NOT EXISTS cost_basis ..., version 2 recorded
migrate ==
    /\ ncalls < MaxCalls
    /\ ncalls' = ncalls + 1
    /\ IF schema_version >= 2
       THEN UNCHANGED <<cost_basis, schema_version>>
       ELSE /\ cost_basis' = cost_basis
            /\ schema_version' = 2
    /\ last' = Call("migrate", <<>>, "none", <<>>, FALSE)
    /\ UNCHANGED <<self_method, infVars, storeVars, sqlite3, cache>>

----------------------------------------------------------------------------
(* TransactionInferenceEngine *)

HeldTickers == {"AAPL", "MSFT", "N/A"}
HeldQuantities == {0, 5, 8, -5}

\* Decimal(str(x)) if x else Decimal('0') on a REAL column: a falsy value (0;
\* a NULL reads the same) gives 0, any other number gives its own value
to_decimal(x) == IF x = 0 THEN 0 ELSE x

\* a date string "YYYY-MM-DD"
DateString(day) == [encoding |-> "date", day |-> day, time |-> 0]

\* _parse_snapshot_date: the date part of a timestamp of either encoding
parse_snapshot_date(timestamp) == DateString(timestamp.day)

\* the rows the SELECT of get_holdings_for_snapshot returns
HoldingRows(rows, snapshot_id) ==
    {i \in 1..Len(rows) : /\ rows[i].snapshot_id = snapshot_id
                          /\ rows[i].ticker # None
                          /\ rows[i].ticker # "N/A"}

\* get_holdings_for_snapshot: a dict keyed by ticker; of several rows of one
\* ticker the row fetched last stays, and the SELECT has no ORDER BY, so any
\* of them may be that row
get_holdings_for_snapshot(rows, snapshot_id) ==
    LET ids == HoldingRows(rows, snapshot_id)
        keys == {rows[i].ticker : i \in ids}
    IN {[t \in keys |-> [ticker |-> t,
                         quantity |-> to_decimal(rows[pick[t]].quantity),
                         value |-> to_decimal(rows[pick[t]].value),
                         last_price |-> to_decimal(rows[pick[t]].last_price)]] :
            pick \in {f \in [keys -> ids] : \A t \in keys : rows[f[t]].ticker = t}}

\* holdings.get(ticker, {}).get('quantity', Decimal('0'))
QuantityIn(held, ticker) ==
    IF ticker \in DOMAIN held THEN held[ticker].quantity ELSE 0

Abs(x) == IF x < 0 THEN -x ELSE x

\* the body of the loop of compare_snapshots for one ticker whose quantity
\* changed: the transaction, or KeyError when the price is looked up in a
\* dict that does not hold the ticker
InferOne(prev_holdings, curr_holdings, curr_snapshot, ticker) ==
    LET prev_qty == QuantityIn(prev_holdings, ticker)
        curr_qty == QuantityIn(curr_holdings, ticker)
        qty_change == curr_qty - prev_qty
        tx_type == IF prev_qty = 0 /\ curr_qty > 0 THEN "buy"
                   ELSE IF curr_qty = 0 /\ prev_qty > 0 THEN "sell"
                   ELSE IF qty_change > 0 THEN "buy"
                   ELSE "sell"
        quantity == IF prev_qty = 0 /\ curr_qty > 0 THEN curr_qty
                    ELSE IF curr_qty = 0 /\ prev_qty > 0 THEN prev_qty
                    ELSE IF qty_change > 0 THEN qty_change
                    ELSE Abs(qty_change)
        price_from == IF prev_qty = 0 /\ curr_qty > 0 THEN curr_holdings
                      ELSE IF curr_qty = 0 /\ prev_qty > 0 THEN prev_holdings
                      ELSE curr_holdings
    IN IF ticker \notin DOMAIN price_from THEN [raised |-> "KeyError"]
       ELSE [raised |-> "none",
             transaction_date |-> parse_snapshot_date(curr_snapshot.timestamp),
             ticker |-> ticker,
             transaction_type |-> tx_type,
             quantity |-> quantity,
             price_per_share |-> price_from[ticker].last_price,
             total_amount |-> quantity * price_from[ticker].last_price,
             notes |-> "Inferred from snapshot comparison",
             account_id |-> "INFERRED",
             source |-> "snapshot_inference"]

NoComparison == [called |-> FALSE, raised |-> "none", transactions |-> {},
                 prev_holdings |-> <<>>, curr_holdings |-> <<>>]

\* compare_snapshots(prev_snapshot, curr_snapshot): the transactions it
\* returns (their order in the list is the iteration order of a set), or the
\* exception that ends it
compare_snapshots(prev_snapshot, curr_snapshot) ==
    /\ ncalls < MaxCalls
    /\ ncalls' = ncalls + 1
    /\ \E prev_holdings \in get_holdings_for_snapshot(holdings, prev_snapshot.id),
          curr_holdings \in get_holdings_for_snapshot(holdings, curr_snapshot.id) :
         LET all_tickers == DOMAIN prev_holdings \cup DOMAIN curr_holdings
             changed == {t \in all_tickers :
                           QuantityIn(prev_holdings, t) # QuantityIn(curr_holdings, t)}
             out == [t \in changed |->
                       InferOne(prev_holdings, curr_holdings, curr_snapshot, t)]
         IN inferred' =
              [called |-> TRUE,
               raised |-> IF \E t \in changed : out[t].raised = "KeyError"
                          THEN "KeyError" ELSE "none",
               transactions |-> IF \E t \in changed : out[t].raised = "KeyError"
                                THEN {} ELSE {out[t] : t \in changed},
               prev_holdings |-> prev_holdings,
               curr_holdings |-> curr_holdings]
    /\ last' = Call("compare_snapshots", [prev |-> prev_snapshot.id,
                                          curr |-> curr_snapshot.id],
                    inferred'.raised, <<>>, TRUE)
    /\ UNCHANGED <<cbVars, snapshots, holdings, storeVars, sqlite3, cache>>

\* a timestamp column value: its encoding and the day and time it names
Timestamp(encoding, day, time) == [encoding |-> encoding, day |-> day, time |-> time]

\* the holdings row save_snapshot inserts for one stock of one account
HoldingRow(snapshot_id, account_id, ticker, quantity, last_price) ==
    [snapshot_id |-> snapshot_id, account_id |-> account_id, ticker |-> ticker,
     quantity |-> quantity, last_price |-> last_price,
     value |-> quantity * last_price]

\* the last_price of every holding of a snapshot
LastPrice(snapshot_id) == 100 + 10 * snapshot_id

\* the stocks one snapshot may hold: for each account no stock or one stock
SnapshotRows(snapshot_id) ==
    LET perAccount(a) ==
            {<<>>} \cup {<<HoldingRow(snapshot_id, a, t, q, LastPrice(snapshot_id))>> :
                            t \in HeldTickers, q \in HeldQuantities}
    IN {r1 \o r2 : r1 \in perAccount("A1"), r2 \in perAccount("A2")}

\* a database of two snapshots, as DatabaseManager.save_snapshot stores them
InitInference ==
    /\ sqlite3 = sqlite3_names
    /\ cache = NoCache
    /\ self_method = "FIFO"
    /\ cost_basis = <<>>
    /\ schema_version = 2
    /\ ncalls = 0
    /\ last = NoCall
    /\ snapshots = <<[id |-> 1, timestamp |-> Timestamp("iso", 1, 1)],
                     [id |-> 2, timestamp |-> Timestamp("iso", 2, 1)]>>
    /\ holdings \in {h1 \o h2 : h1 \in SnapshotRows(1), h2 \in SnapshotRows(2)}
    /\ inferred = NoComparison
    /\ transactions = <<>>
    /\ benchmark_data = <<>>

NextInference ==
    \E i \in 1..(Len(snapshots) - 1) : compare_snapshots(snapshots[i], snapshots[i + 1])

SpecInference == InitInference /\ [][NextInference]_vars

----------------------------------------------------------------------------
(* The database the calculator is opened on *)

Lot(id, account_id, acquisition_date, quantity, cost_per_share, remaining_quantity) ==
    [id |-> id, account_id |-> account_id, ticker |-> "AAPL",
     acquisition_date |-> acquisition_date, quantity |-> quantity,
     cost_per_share |-> cost_per_share,
     total_cost |-> quantize(quantity * cost_per_share, 1), method |-> "FIFO",
     remaining_quantity |-> remaining_quantity,
     is_closed |-> (remaining_quantity = 0)]

\* contents of table cost_basis in the database file named by db_path: the
\* table as migrate_to_v2 creates it, and ledgers of positive lots
StoredLedgers ==
    {<<>>}
    \cup {<<Lot(1, a, 1, 30, 1000, 30)>> : a \in Accounts}
    \cup {<<Lot(1, "A1", 1, 30, 1000, r[1]), Lot(2, a, d, 40, 1200, r[2])>> :
              a \in Accounts, d \in Dates, r \in {<<30, 40>>, <<0, 20>>}}

Init ==
    /\ sqlite3 = sqlite3_names
    /\ cache = NoCache
    /\ self_method = "FIFO"
    /\ cost_basis \in StoredLedgers
    /\ schema_version = 2
    /\ ncalls = 0
    /\ last = NoCall
    /\ snapshots = <<>>
    /\ holdings = <<>>
    /\ inferred = NoComparison
    /\ transactions = <<>>
    /\ benchmark_data = <<>>

Next ==
    \/ \E m \in MethodInputs : Construct(m)
    \/ \E a \in Accounts, t \in TickerInputs, d \in Dates, q \in Quantities,
          c \in CostsPerShare : create_lot(a, t, d, q, c)
    \/ \E t \in TickerInputs, q \in SaleQuantities, p \in SalePrices,
          a \in Accounts \cup {None} : record_sale(t, q, p, a)
    \/ \E t \in TickerInputs, q \in BasisQuantities, a \in Accounts \cup {None},
          m \in MethodInputs \cup {None} : calculate_cost_basis(t, q, a, m)
    \/ rollback_to_v1
    \/ migrate

Spec == Init /\ [][Next]_vars

\* the same calculator on an sqlite3 module in which the name Connect of
\* _get_connection resolves (to the factory connect)
InitConnected ==
    /\ sqlite3 = sqlite3_names \cup {"Connect"}
    /\ cache = NoCache
    /\ self_method = "FIFO"
    /\ cost_basis \in StoredLedgers
    /\ schema_version = 2
    /\ ncalls = 0
    /\ last = NoCall
    /\ snapshots = <<>>
    /\ holdings = <<>>
    /\ inferred = NoComparison
    /\ transactions = <<>>
    /\ benchmark_data = <<>>

SpecConnected == InitConnected /\ [][Next]_vars

----------------------------------------------------------------------------
(* Timestamps and dates as the strings the code compares *)

\* the position of a timestamp or date string of one year in the order of
\* strings, which is what ORDER BY, sorted() and <= compare: a full ISO
\* string "YYYY-MM-DDTHH:MM:SS" and a date "YYYY-MM-DD" have '-' where the
\* compact "YYYYMMDD_HHMMSS" has a digit and so are below every compact
\* string; a date is a prefix of the ISO strings of its day and below them
StringKey(ts) ==
    <<IF ts.encoding = "compact" THEN 1 ELSE 0, ts.day, ts.time>>

StringLess(a, b) ==
    LET ka == StringKey(a)
        kb == StringKey(b)
    IN \/ ka[1] < kb[1]
       \/ ka[1] = kb[1] /\ ka[2] < kb[2]
       \/ ka[1] = kb[1] /\ ka[2] = kb[2] /\ ka[3] < kb[3]

StringLeq(a, b) == ~StringLess(b, a)

\* rows ordered by the string of their timestamp; rows of equal strings stay
\* in the order they had (sorted() is stable, ORDER BY reads in rowid order)
SortedByTimestamp(rows) ==
    LET n == Len(rows)
        perm == CHOOSE p \in [1..n -> 1..n] :
                    /\ \A i, j \in 1..n : i # j => p[i] # p[j]
                    /\ \A i, j \in 1..n : i < j =>
                          \/ StringLess(rows[p[i]].timestamp, rows[p[j]].timestamp)
                          \/ /\ ~StringLess(rows[p[j]].timestamp, rows[p[i]].timestamp)
                             /\ p[i] < p[j]
    IN [i \in 1..n |-> rows[perm[i]]]

\* rows ordered by the string of their transaction_date (stable)
SortedByDate(rows) ==
    LET n == Len(rows)
        perm == CHOOSE p \in [1..n -> 1..n] :
                    /\ \A i, j \in 1..n : i # j => p[i] # p[j]
                    /\ \A i, j \in 1..n : i < j =>
                          \/ StringLess(rows[p[i]].transaction_date,
                                        rows[p[j]].transaction_date)
                          \/ /\ ~StringLess(rows[p[j]].transaction_date,
                                            rows[p[i]].transaction_date)
                             /\ p[i] < p[j]
    IN [i \in 1..n |-> rows[perm[i]]]

\* the elements of a set in the order in which the process iterates over it
ListOf(S) ==
    CHOOSE s \in [1..Cardinality(S) -> S] : \A x \in S : \E i \in DOMAIN s : s[i] = x

----------------------------------------------------------------------------
(* TransactionInferenceEngine: inference over the whole series, and saving *)

\* get_snapshots_chronological: SELECT ... FROM snapshots ORDER BY timestamp ASC
get_snapshots_chronological(rows) == SortedByTimestamp(rows)

\* SELECT DISTINCT transaction_date FROM transactions
\* WHERE source = 'snapshot_inference'
ExistingDates_of_manual_source(rows) ==
    {rows[i].transaction_date : i \in {j \in 1..Len(rows) : rows[j].source = "manual"}}

ExistingDates(rows) ==
    {rows[i].transaction_date :
        i \in {j \in 1..Len(rows) : rows[j].source = "snapshot_inference"}}

\* what compare_snapshots returns or raises for the holdings dicts of a pair
Compared(prev_holdings, curr_holdings, curr_snapshot) ==
    LET all_tickers == DOMAIN prev_holdings \cup DOMAIN curr_holdings
        changed == {t \in all_tickers :
                      QuantityIn(prev_holdings, t) # QuantityIn(curr_holdings, t)}
        out == [t \in changed |->
                  InferOne(prev_holdings, curr_holdings, curr_snapshot, t)]
    IN IF \E t \in changed : out[t].raised = "KeyError"
       THEN [raised |-> "KeyError", transactions |-> <<>>]
       ELSE [raised |-> "none", transactions |-> ListOf({out[t] : t \in changed})]

\* the loop of infer_all_transactions from pair i on: the transactions of
\* the pairs that are not skipped and the number of pairs that raised
RECURSIVE InferPairs(_, _, _, _, _)
InferPairs(snaps, held, i, skip_existing, existing_dates) ==
    IF i > Len(snaps) - 1 THEN [transactions |-> <<>>, errors |-> 0]
    ELSE LET rest == InferPairs(snaps, held, i + 1, skip_existing, existing_dates)
             curr_date == parse_snapshot_date(snaps[i + 1].timestamp)
             got == Compared(held[snaps[i].id], held[snaps[i + 1].id], snaps[i + 1])
         IN IF skip_existing /\ curr_date \in existing_dates THEN rest
            ELSE IF got.raised # "none"
            THEN [transactions |-> rest.transactions, errors |-> rest.errors + 1]
            ELSE [transactions |-> got.transactions \o rest.transactions,
                  errors |-> rest.errors]

\* infer_all_transactions(skip_existing), held being the dict that
\* get_holdings_for_snapshot returns for each snapshot id
infer_all_transactions(held, skip_existing) ==
    LET snaps == get_snapshots_chronological(snapshots)
        existing_dates == IF skip_existing THEN ExistingDates(transactions) ELSE {}
        run == InferPairs(snaps, held, 1, skip_existing, existing_dates)
    IN IF Len(snaps) < 2
       THEN [raised |-> "none", inferred |-> 0, skipped |-> 0, errors |-> 0,
             transactions |-> <<>>]
       ELSE IF skip_existing /\ schema_version < 2
       THEN [raised |-> "OperationalError", inferred |-> 0, skipped |-> 0,
             errors |-> 0, transactions |-> <<>>]
       ELSE [raised |-> "none", inferred |-> Len(run.transactions),
             skipped |-> IF skip_existing THEN Cardinality(existing_dates) ELSE 0,
             errors |-> run.errors, transactions |-> run.transactions]

\* the text columns of table transactions that are NOT NULL and that the
\* INSERT of save_inferred_transactions takes from the dict with tx[...]
\* (the dates and numbers of the dicts of the model are never None)
RequiredKeys == {"ticker", "transaction_type"}

\* the outcome of the INSERT for one dict: the row is stored, or the
\* statement raises (no table: OperationalError; a key of the dict missing:
\* KeyError; NULL in a NOT NULL column: IntegrityError)
InsertOutcome(tx) ==
    IF \E k \in {"ticker", "transaction_type", "transaction_date", "quantity",
                 "price_per_share", "total_amount"} : k \notin DOMAIN tx
    THEN "KeyError"
    ELSE IF schema_version < 2 THEN "OperationalError"
    ELSE IF \E k \in RequiredKeys : tx[k] = None THEN "IntegrityError"
    ELSE "stored"

\* the row the INSERT stores for a dict
StoredRow(tx, id) ==
    [id |-> id,
     account_id |-> IF "account_id" \in DOMAIN tx THEN tx.account_id ELSE "INFERRED",
     ticker |-> tx.ticker,
     transaction_type |-> tx.transaction_type,
     transaction_date |-> tx.transaction_date,
     quantity |-> tx.quantity,
     price_per_share |-> tx.price_per_share,
     total_amount |-> tx.total_amount,
     source |-> IF "source" \in DOMAIN tx THEN tx.source ELSE "snapshot_inference"]

\* a loop that ends the batch at the first INSERT that raises
RECURSIVE SaveLoop_ending_at_rejection(_, _, _)
SaveLoop_ending_at_rejection(rows, batch, i) ==
    IF i > Len(batch) THEN [rows |-> rows, saved |-> 0]
    ELSE IF InsertOutcome(batch[i]) = "stored"
    THEN LET rest == SaveLoop_ending_at_rejection(
                         Append(rows, StoredRow(batch[i], Len(rows) + 1)), batch, i + 1)
         IN [rows |-> rest.rows, saved |-> rest.saved + 1]
    ELSE [rows |-> rows, saved |-> 0]

\* the loop of save_inferred_transactions from dict i on: each INSERT is
\* tried, an exception of a row is caught and the loop goes on
RECURSIVE SaveLoop(_, _, _)
SaveLoop(rows, batch, i) ==
    IF i > Len(batch) THEN [rows |-> rows, saved |-> 0]
    ELSE IF InsertOutcome(batch[i]) = "stored"
    THEN LET rest == SaveLoop(Append(rows, StoredRow(batch[i], Len(rows) + 1)),
                              batch, i + 1)
         IN [rows |-> rest.rows, saved |-> rest.saved + 1]
    ELSE SaveLoop(rows, batch, i + 1)

\* the dict of every snapshot id, one of those get_holdings_for_snapshot
\* may return
HeldOfSnapshots ==
    {h \in [{snapshots[i].id : i \in 1..Len(snapshots)} ->
               UNION {get_holdings_for_snapshot(holdings, snapshots[i].id) :
                         i \in 1..Len(snapshots)}] :
        \A i \in 1..Len(snapshots) :
            h[snapshots[i].id] \in get_holdings_for_snapshot(holdings, snapshots[i].id)}

\* POST /api/v1/transactions/infer (infer_transactions_from_snapshots): run
\* the inference, save what it returned when asked to, and report the counts
infer_transactions_from_snapshots(save, skip_existing) ==
    /\ ncalls < MaxCalls
    /\ ncalls' = ncalls + 1
    /\ \E held \in HeldOfSnapshots :
         LET result == infer_all_transactions(held, skip_existing)
             saving == save /\ result.raised = "none" /\ result.transactions # <<>>
             saved == SaveLoop(transactions, result.transactions, 1)
         IN /\ transactions' = IF saving THEN saved.rows ELSE transactions
            /\ last' = Call("infer_transactions_from_snapshots",
                            [save |-> save, skip_existing |-> skip_existing],
                            IF result.raised = "none" THEN "none" ELSE "HTTPException",
                            [inferred_count |-> result.inferred,
                             saved_count |-> IF saving THEN saved.saved ELSE 0,
                             skipped_dates |-> result.skipped,
                             errors |-> result.errors,
                             transactions |-> result.transactions],
                            TRUE)
    /\ UNCHANGED <<cbVars, infVars, benchmark_data, sqlite3, cache>>

\* the stocks of one snapshot of the series: AAPL and MSFT, each held in one
\* account or not at all
SeriesRows(snapshot_id) ==
    LET rowsOf(t, quantities) ==
            {<<>>} \cup {<<HoldingRow(snapshot_id, "A1", t, q, LastPrice(snapshot_id))>> :
                            q \in quantities}
    IN {r1 \o r2 : r1 \in rowsOf("AAPL", {5, 8}), r2 \in rowsOf("MSFT", {-5})}

\* a database of three snapshots taken on days that do not decrease, with
\* no transaction stored yet
InitInferAll ==
    /\ sqlite3 = sqlite3_names
    /\ cache = NoCache
    /\ self_method = "FIFO"
    /\ cost_basis = <<>>
    /\ schema_version = 2
    /\ ncalls = 0
    /\ last = NoCall
    /\ \E d2, d3 \in Dates :
         /\ d2 <= d3
         /\ snapshots = <<[id |-> 1, timestamp |-> Timestamp("iso", 1, 1)],
                          [id |-> 2, timestamp |-> Timestamp("iso", d2, 2)],
                          [id |-> 3, timestamp |-> Timestamp("iso", d3, 3)]>>
    /\ holdings \in {h1 \o h2 \o h3 : h1 \in SeriesRows(1), h2 \in SeriesRows(2),
                                      h3 \in SeriesRows(3)}
    /\ inferred = NoComparison
    /\ transactions = <<>>
    /\ benchmark_data = <<>>

NextInferAll ==
    \E save \in BOOLEAN, skip_existing \in BOOLEAN :
        infer_transactions_from_snapshots(save, skip_existing)

SpecInferAll == InitInferAll /\ [][NextInferAll]_vars

----------------------------------------------------------------------------
(* The mutating calls of the ledger engines on one database *)

\* NULL in the REAL column price_per_share, which is nullable
NullPrice == -1

\* a row of table transactions as TransactionManager stores a manual BUY
BuyRow(id, account_id, day, quantity, price_per_share) ==
    [id |-> id, account_id |-> account_id, ticker |-> "AAPL",
     transaction_type |-> "BUY", transaction_date |-> DateString(day),
     quantity |-> quantity, price_per_share |-> price_per_share,
     total_amount |-> IF price_per_share = NullPrice THEN 0
                      ELSE quantity * price_per_share,
     source |-> "manual"]

\* the loop of sync_from_transactions from BUY transaction i on: a BUY with
\* a lot of its ticker, date and quantity is skipped; for any other create_lot
\* is called, which converts the price (Decimal(str(None)) raises
\* InvalidOperation), opens a connection of its own and commits its lot
RECURSIVE SyncLoop(_, _, _)
SyncLoop(lots, buy_transactions, i) ==
    IF i > Len(buy_transactions) THEN [lots |-> lots, created |-> 0, raised |-> "none"]
    ELSE LET txn == buy_transactions[i]
         IN IF \E k \in 1..Len(lots) :
                  /\ lots[k].ticker = txn.ticker
                  /\ lots[k].acquisition_date = txn.transaction_date.day
                  /\ lots[k].quantity = txn.quantity
            THEN SyncLoop(lots, buy_transactions, i + 1)
            ELSE IF txn.price_per_share = NullPrice
            THEN [lots |-> lots, created |-> 0, raised |-> "InvalidOperation"]
            ELSE LET lot == [id |-> Len(lots) + 1,
                             account_id |-> txn.account_id,
                             ticker |-> upper(txn.ticker),
                             acquisition_date |-> txn.transaction_date.day,
                             quantity |-> txn.quantity,
                             cost_per_share |-> txn.price_per_share,
                             total_cost |-> quantize(txn.quantity * txn.price_per_share, 1),
                             method |-> self_method,
                             remaining_quantity |-> txn.quantity,
                             is_closed |-> FALSE]
                     rest == SyncLoop(Append(lots, lot), buy_transactions, i + 1)
                 IN [lots |-> rest.lots, created |-> rest.created + 1,
                     raised |-> rest.raised]

\* sync_from_transactions(account_id)
sync_from_transactions(account_id) ==
    /\ ncalls < MaxCalls
    /\ ncalls' = ncalls + 1
    /\ LET args == [account_id |-> account_id]
           buy_transactions ==
               SelectSeq(transactions,
                         LAMBDA row : /\ row.transaction_type = "BUY"
                                      /\ (account_id # None => row.account_id = account_id))
           synced == SyncLoop(cost_basis, SortedByDate(buy_transactions), 1)
       IN IF CostBasis_get_connection # "ok"
          THEN /\ cost_basis' = cost_basis
               /\ last' = Call("sync_from_transactions", args,
                               CostBasis_get_connection, <<>>, FALSE)
          ELSE IF schema_version < 2
          THEN /\ cost_basis' = cost_basis
               /\ last' = Call("sync_from_transactions", args, "OperationalError",
                               <<>>, FALSE)
          ELSE /\ cost_basis' = synced.lots
               /\ last' = Call("sync_from_transactions", args, synced.raised,
                               synced.created, TRUE)
    /\ UNCHANGED <<self_method, schema_version, infVars, storeVars, sqlite3, cache>>

\* save_inferred_transactions(transactions): every dict of the list is
\* inserted or skipped, then the connection commits; the count of the
\* inserted rows is returned
save_inferred_transactions(batch) ==
    /\ ncalls < MaxCalls
    /\ ncalls' = ncalls + 1
    /\ LET saved == SaveLoop(transactions, batch, 1)
       IN /\ transactions' = saved.rows
          /\ last' = Call("save_inferred_transactions", [transactions |-> batch],
                          "none", saved.saved, FALSE)
    /\ UNCHANGED <<cbVars, infVars, benchmark_data, sqlite3, cache>>

\* dicts as compare_snapshots makes them, a dict whose ticker is None and a
\* dict without the key total_amount
InferredDict(ticker, transaction_type, day, quantity, price) ==
    [transaction_date |-> DateString(day), ticker |-> ticker,
     transaction_type |-> transaction_type, quantity |-> quantity,
     price_per_share |-> price, total_amount |-> quantity * price,
     notes |-> "Inferred from snapshot comparison", account_id |-> "INFERRED",
     source |-> "snapshot_inference"]

DictWithoutAmount ==
    [transaction_date |-> DateString(1), ticker |-> "MSFT",
     transaction_type |-> "buy", quantity |-> 5, price_per_share |-> 110]

\* the lists save_inferred_transactions is called with
BatchInputs ==
    LET buy == InferredDict("AAPL", "buy", 2, 3, 120)
        sell == InferredDict("MSFT", "sell", 2, 5, 120)
        rejected == InferredDict(None, "buy", 2, 3, 120)
    IN {<<>>, <<buy>>, <<buy, buy>>, <<rejected>>, <<buy, rejected, sell>>,
        <<DictWithoutAmount, sell>>}

\* a database before or after the migration to version 2, with the lots and
\* the manual BUY transactions it holds
InitLedger ==
    /\ sqlite3 = sqlite3_names
    /\ cache = NoCache
    /\ self_method = "FIFO"
    /\ schema_version \in {1, 2}
    /\ cost_basis \in IF schema_version = 2
                      THEN {<<>>, <<Lot(1, "A1", 1, 30, 1000, 30)>>}
                      ELSE {<<>>}
    /\ transactions \in IF schema_version = 2
                        THEN {<<>>,
                              <<BuyRow(1, "A1", 1, 30, 1000)>>,
                              <<BuyRow(1, "A1", 1, 30, 1000),
                                BuyRow(2, "A2", 2, 40, NullPrice)>>}
                        ELSE {<<>>}
    /\ ncalls = 0
    /\ last = NoCall
    /\ snapshots = <<>>
    /\ holdings = <<>>
    /\ inferred = NoComparison
    /\ benchmark_data = <<>>

NextLedger ==
    \/ \E a \in Accounts, t \in TickerInputs, d \in Dates, q \in Quantities,
          c \in CostsPerShare : create_lot(a, t, d, q, c)
    \/ \E t \in TickerInputs, q \in SaleQuantities, p \in SalePrices,
          a \in Accounts \cup {None} : record_sale(t, q, p, a)
    \/ \E a \in Accounts \cup {None} : sync_from_transactions(a)
    \/ \E batch \in BatchInputs : save_inferred_transactions(batch)

SpecLedger == InitLedger /\ [][NextLedger]_vars

----------------------------------------------------------------------------
(* PerformanceAnalytics.  Floats are exact fractions <<numerator,           *)
(* denominator>> with a positive denominator; the rounding of float         *)
(* arithmetic is not modelled.                                              *)

Rat(n) == <<n, 1>>
RatEq(a, b) == a[1] * b[2] = b[1] * a[2]
RatMul(a, b) == <<a[1] * b[1], a[2] * b[2]>>
RatSub(a, b) == <<a[1] * b[2] - b[1] * a[2], a[2] * b[2]>>
RatAdd(a, b) == <<a[1] * b[2] + b[1] * a[2], a[2] * b[2]>>

\* datetime.fromisoformat(string): the instant a timestamp or a date names
\* (a date names midnight); since Python 3.11 the compact form parses too
fromisoformat(ts) == <<ts.day, ts.time>>

InstantLess(a, b) == a[1] < b[1] \/ (a[1] = b[1] /\ a[2] < b[2])

\* (end_date - start_date).days for instants of the same time of day or later
DaysBetween(start_date, end_date) ==
    IF end_date[2] >= start_date[2] THEN end_date[1] - start_date[1]
    ELSE end_date[1] - start_date[1] - 1

\* str.upper() of a transaction_type
upper_type(s) ==
    CASE s = "buy" -> "BUY"
      [] s = "sell" -> "SELL"
      [] OTHER -> s

\* calculate_simple_return(start_value, end_value, cash_flows)
calculate_simple_return(start_value, end_value, cash_flows) ==
    IF start_value = 0 THEN Rat(0)
    ELSE <<end_value - start_value - cash_flows, start_value>>

\* the sum of calculate_twr over the transactions of one sub-period: BUY
\* counts +total_amount, SELL -total_amount, the dates compared as strings
PeriodCashFlows(txs, start_snap, end_snap) ==
    LET Part(t) ==
            IF /\ StringLeq(start_snap.timestamp, t.transaction_date)
               /\ StringLess(t.transaction_date, end_snap.timestamp)
               /\ upper_type(t.transaction_type) \in {"BUY", "SELL"}
            THEN IF upper_type(t.transaction_type) = "BUY"
                 THEN t.total_amount ELSE -t.total_amount
            ELSE 0
    IN SumOver(Part, txs, 1)

\* the loop of calculate_twr from pair i on: the list period_returns
RECURSIVE PeriodReturns(_, _, _)
PeriodReturns(snaps, txs, i) ==
    IF i > Len(snaps) - 1 THEN <<>>
    ELSE LET start_value == snaps[i].total_value
             end_value == snaps[i + 1].total_value
             flows == PeriodCashFlows(txs, snaps[i], snaps[i + 1])
         IN IF start_value = 0 THEN PeriodReturns(snaps, txs, i + 1)
            ELSE <<<<end_value - start_value - flows, start_value>>>>
                     \o PeriodReturns(snaps, txs, i + 1)

\* twr = 1.0; for r in period_returns: twr *= (1.0 + r)
RECURSIVE Linked(_, _)
Linked(period_returns, i) ==
    IF i > Len(period_returns) THEN Rat(1)
    ELSE RatMul(RatAdd(Rat(1), period_returns[i]), Linked(period_returns, i + 1))

\* _annualize_return(total_return, periods, periods_per_year = 365):
\* ((1 + total_return) ** (periods_per_year / periods)) - 1, kept as the base
\* and the exponent of the power; 0.0 for periods = 0 is the power of base 1
annualize_return(total_return, periods) ==
    IF periods = 0 THEN [base |-> Rat(1), exponent |-> <<365, 1>>]
    ELSE [base |-> RatAdd(Rat(1), total_return), exponent |-> <<365, periods>>]

\* calculate_twr(snapshots, transactions)
calculate_twr(snaps_in, txs_in) ==
    LET snaps == SortedByTimestamp(snaps_in)
        txs == SortedByDate(txs_in)
        period_returns == PeriodReturns(snaps, txs, 1)
        twr == RatSub(Linked(period_returns, 1), Rat(1))
    IN IF Len(snaps_in) < 2 THEN [twr |-> Rat(0), periods |-> 0]
       ELSE IF period_returns = <<>> THEN [twr |-> Rat(0), periods |-> 0]
       ELSE [twr |-> twr,
             twr_percent |-> RatMul(twr, Rat(100)),
             periods |-> Len(period_returns),
             annualized_twr |-> annualize_return(twr, Len(period_returns))]

\* the cash flows calculate_mwr gives the solver after the initial value and
\* before the final value: one per transaction dated between the two
\* instants, -total_amount when the type is 'BUY', else +total_amount
RECURSIVE IntermediateFlows(_, _, _, _)
IntermediateFlows(txs, i, start_date, end_date) ==
    IF i > Len(txs) THEN <<>>
    ELSE LET t == txs[i]
             t_date == fromisoformat(t.transaction_date)
             rest == IntermediateFlows(txs, i + 1, start_date, end_date)
         IN IF InstantLess(start_date, t_date) /\ InstantLess(t_date, end_date)
            THEN <<[amount |-> IF t.transaction_type = "BUY"
                               THEN -t.total_amount ELSE t.total_amount,
                    date |-> t_date]>> \o rest
            ELSE rest

\* calculate_mwr(snapshots, transactions); solver is what scipy's newton does
\* on the NPV of the cash flows: it returns a root, or raises RuntimeError
\* when it does not converge within maxiter = 100 iterations
calculate_mwr(snaps_in, txs_in, solver) ==
    LET snaps == SortedByTimestamp(snaps_in)
        txs == SortedByDate(txs_in)
        start_date == fromisoformat(snaps[1].timestamp)
        end_date == fromisoformat(snaps[Len(snaps)].timestamp)
        cash_flows ==
            <<[amount |-> -snaps[1].total_value, date |-> start_date]>>
            \o IntermediateFlows(txs, 1, start_date, end_date)
            \o <<[amount |-> snaps[Len(snaps)].total_value, date |-> end_date]>>
    IN IF Len(snaps_in) < 2 THEN [mwr |-> "0.0", converged |-> FALSE]
       ELSE [mwr |-> IF solver = "converged" THEN "root" ELSE "0.0",
             mwr_percent |-> IF solver = "converged" THEN "root * 100" ELSE "0.0",
             converged |-> (solver = "converged"),
             cash_flows_count |-> Len(cash_flows),
             cash_flows |-> cash_flows]

SolverOutcomes == {"converged", "RuntimeError"}

\* a call of calculate_twr with the snapshots and transactions of the store
twr_of_store ==
    /\ ncalls < MaxCalls
    /\ ncalls' = ncalls + 1
    /\ last' = Call("calculate_twr", <<>>, "none",
                    calculate_twr(snapshots, transactions), TRUE)
    /\ UNCHANGED <<cbVars, infVars, storeVars, sqlite3, cache>>

\* a call of calculate_mwr with the snapshots and transactions of the store
mwr_of_store(solver) ==
    /\ ncalls < MaxCalls
    /\ ncalls' = ncalls + 1
    /\ last' = Call("calculate_mwr", [solver |-> solver], "none",
                    calculate_mwr(snapshots, transactions, solver), TRUE)
    /\ UNCHANGED <<cbVars, infVars, storeVars, sqlite3, cache>>

\* calculate_portfolio_returns(days): cutoff_date is the ISO string of the
\* instant days before now
calculate_portfolio_returns(cutoff_date, solver) ==
    /\ ncalls < MaxCalls
    /\ ncalls' = ncalls + 1
    /\ LET snaps == SortedByTimestamp(
                        SelectSeq(snapshots,
                                  LAMBDA s : StringLeq(cutoff_date, s.timestamp)))
           txs == SortedByDate(
                      SelectSeq(transactions,
                                LAMBDA t : StringLeq(cutoff_date, t.transaction_date)))
           args == [cutoff_date |-> cutoff_date, solver |-> solver,
                    snapshots_count |-> Len(snaps)]
           start_value == snaps[1].total_value
           end_value == snaps[Len(snaps)].total_value
           NetPart(t) == IF upper_type(t.transaction_type) \in {"BUY", "SELL"}
                         THEN IF upper_type(t.transaction_type) = "BUY"
                              THEN t.total_amount ELSE -t.total_amount
                         ELSE 0
           net_cash_flows == SumOver(NetPart, txs, 1)
           twr_result == calculate_twr(snaps, txs)
           mwr_result == calculate_mwr(snaps, txs, solver)
       IN IF Len(snaps) < 2
          THEN last' = Call("calculate_portfolio_returns", args, "none",
                            [error |-> "Insufficient data"], TRUE)
          ELSE IF "twr_percent" \notin DOMAIN twr_result
          THEN last' = Call("calculate_portfolio_returns", args, "KeyError",
                            <<>>, TRUE)
          ELSE last' = Call("calculate_portfolio_returns", args, "none",
                            [days |-> DaysBetween(fromisoformat(snaps[1].timestamp),
                                                  fromisoformat(snaps[Len(snaps)].timestamp)),
                             snapshots_count |-> Len(snaps),
                             transactions_count |-> Len(txs),
                             start_value |-> start_value,
                             end_value |-> end_value,
                             simple_return |-> calculate_simple_return(
                                                   start_value, end_value, net_cash_flows),
                             twr |-> twr_result.twr,
                             twr_percent |-> twr_result.twr_percent,
                             annualized_twr |-> twr_result.annualized_twr,
                             mwr |-> mwr_result.mwr,
                             mwr_percent |-> mwr_result.mwr_percent,
                             mwr_converged |-> mwr_result.converged],
                            TRUE)
    /\ UNCHANGED <<cbVars, infVars, storeVars, sqlite3, cache>>

\* the days on which snapshots are taken and transactions are dated
PerfDays == 1..(MaxDate + 1)
TotalValues == {0, 100, 110}
TransactionTypes == {"BUY", "buy", "SELL", "DIVIDEND"}

\* a snapshot row as the collector (ISO timestamp) or the legacy importer
\* fid-import.py (compact timestamp) stores it
SnapshotRow(id, encoding, day, total_value) ==
    [id |-> id, timestamp |-> Timestamp(encoding, day, 1), total_value |-> total_value]

\* a row of table transactions as calculate_portfolio_returns selects it
FlowRow(id, transaction_type, day, total_amount) ==
    [id |-> id, ticker |-> "AAPL", transaction_type |-> transaction_type,
     transaction_date |-> DateString(day), total_amount |-> total_amount]

\* snapshot series of up to three snapshots on increasing days, with
\* timestamps of one encoding
SnapshotSeries ==
    LET days == {<<>>} \cup {<<d>> : d \in PerfDays}
                  \cup {<<d1, d2>> \in PerfDays \X PerfDays : d1 < d2}
                  \cup {<<d1, d2, d3>> \in PerfDays \X PerfDays \X PerfDays :
                           d1 < d2 /\ d2 < d3}
    IN UNION {{[i \in 1..Len(ds) |-> SnapshotRow(i, e, ds[i], v[i])] :
                  v \in [1..Len(ds) -> TotalValues], e \in {"iso", "compact"}} :
              ds \in days}

\* no transaction, one transaction, or a BUY and a SELL of one day
TransactionLists ==
    {<<>>}
    \cup {<<FlowRow(1, ty, d, 10)>> : ty \in TransactionTypes, d \in PerfDays}
    \cup {<<FlowRow(1, "BUY", d, 10), FlowRow(2, "SELL", d, 4)>> : d \in PerfDays}

InitPerformance ==
    /\ sqlite3 = sqlite3_names
    /\ cache = NoCache
    /\ self_method = "FIFO"
    /\ cost_basis = <<>>
    /\ schema_version = 2
    /\ ncalls = 0
    /\ last = NoCall
    /\ snapshots \in SnapshotSeries
    /\ holdings = <<>>
    /\ inferred = NoComparison
    /\ transactions \in TransactionLists
    /\ benchmark_data = <<>>

NextPerformance ==
    \/ twr_of_store
    \/ \E solver \in SolverOutcomes : mwr_of_store(solver)
    \/ \E d \in {1, 2}, solver \in SolverOutcomes :
          calculate_portfolio_returns(Timestamp("iso", d, 1), solver)

SpecPerformance == InitPerformance /\ [][NextPerformance]_vars

----------------------------------------------------------------------------
(* RiskAnalytics: the return series and their alignment.  A pandas Series   *)
(* is the sequence of its values in index order; each observation keeps,    *)
(* beside its index label, the date of the row it was computed for, which   *)
(* the Series of the code does not carry.                                   *)

\* rows ordered by the string of their date column (ORDER BY bd.date ASC)
SortedByDateColumn(rows) ==
    LET n == Len(rows)
        perm == CHOOSE p \in [1..n -> 1..n] :
                    /\ \A i, j \in 1..n : i # j => p[i] # p[j]
                    /\ \A i, j \in 1..n : i < j =>
                          \/ StringLess(rows[p[i]].date, rows[p[j]].date)
                          \/ /\ ~StringLess(rows[p[j]].date, rows[p[i]].date)
                             /\ p[i] < p[j]
    IN [i \in 1..n |-> rows[perm[i]]]

\* df[column].pct_change() * 100 followed by dropna(), for a frame of fewer
\* than 2 rows pd.Series([]): row k (from 0) of the frame gives the
\* observation of index label k, the change from the price of row k - 1; the
\* first row has none.  The labels are the row positions 1 .. n - 1.
Returns(rows, DayOf(_), PriceOf(_)) ==
    IF Len(rows) < 2 THEN <<>>
    ELSE [k \in 1..(Len(rows) - 1) |->
             [index |-> k,
              date |-> DayOf(rows[k + 1]),
              change |-> <<PriceOf(rows[k]), PriceOf(rows[k + 1])>>]]

TimestampDay(row) == row.timestamp.day
DateDay(row) == row.date.day
TotalValueOf(row) == row.total_value
LastPriceOf(row) == row.last_price
ClosePriceOf(row) == row.close_price

\* _get_portfolio_returns(days)
get_portfolio_returns(cutoff_date) ==
    Returns(SortedByTimestamp(
                SelectSeq(snapshots, LAMBDA s : StringLeq(cutoff_date, s.timestamp))),
            TimestampDay, TotalValueOf)

\* the rows of holdings JOIN snapshots for one ticker, ordered by timestamp
HoldingHistory(ticker, cutoff_date) ==
    LET joined == [i \in 1..Len(holdings) |->
                      [timestamp |-> (CHOOSE s \in Range(snapshots) :
                                          s.id = holdings[i].snapshot_id).timestamp,
                       ticker |-> holdings[i].ticker,
                       last_price |-> holdings[i].last_price]]
    IN SortedByTimestamp(
           SelectSeq(joined, LAMBDA r : /\ r.ticker = ticker
                                        /\ StringLeq(cutoff_date, r.timestamp)))

\* _get_holding_returns(ticker, days)
get_holding_returns(ticker, cutoff_date) ==
    Returns(HoldingHistory(ticker, cutoff_date), TimestampDay, LastPriceOf)

\* _get_benchmark_returns(benchmark, days)
get_benchmark_returns(cutoff_date) ==
    Returns(SortedByDateColumn(
                SelectSeq(benchmark_data, LAMBDA r : StringLeq(cutoff_date, r.date))),
            DateDay, ClosePriceOf)

\* pd.DataFrame({name: series, ...}).dropna(): one row per index label, a
\* column per series, the rows in which a series has no value dropped; the
\* labels of every series being 1 .. its length, the rows left are those of
\* the labels every series has
AlignedFrame(series) ==
    LET shortest == IF DOMAIN series = {} THEN 0
                    ELSE CHOOSE n \in {Len(series[c]) : c \in DOMAIN series} :
                             \A c \in DOMAIN series : n <= Len(series[c])
    IN [k \in 1..shortest |-> [c \in DOMAIN series |-> series[c][k]]]

\* calculate_beta(days, benchmark); aligned is the frame the regression runs on
calculate_beta(cutoff_date) ==
    /\ ncalls < MaxCalls
    /\ ncalls' = ncalls + 1
    /\ LET portfolio_returns == get_portfolio_returns(cutoff_date)
           benchmark_returns == get_benchmark_returns(cutoff_date)
           aligned == AlignedFrame([c \in {"portfolio", "benchmark"} |->
                                       IF c = "portfolio" THEN portfolio_returns
                                       ELSE benchmark_returns])
           args == [cutoff_date |-> cutoff_date]
       IN IF Len(portfolio_returns) < 2 \/ Len(benchmark_returns) < 2
             \/ Len(aligned) < 2
          THEN last' = Call("calculate_beta", args, "none",
                            [beta |-> "1.0", data_points |-> 0, aligned |-> <<>>],
                            TRUE)
          ELSE last' = Call("calculate_beta", args, "none",
                            [beta |-> "slope", data_points |-> Len(aligned),
                             aligned |-> aligned],
                            TRUE)
    /\ UNCHANGED <<cbVars, infVars, storeVars, sqlite3, cache>>

\* the tickers of the latest snapshot by descending SUM(value), LIMIT
\* min_holdings; tickers of equal value come in an order of SQLite's choosing
TopHoldings(min_holdings) ==
    LET latest == {s \in Range(snapshots) :
                      \A o \in Range(snapshots) : StringLeq(o.timestamp, s.timestamp)}
        rows == SelectSeq(holdings,
                          LAMBDA h : \E s \in latest : h.snapshot_id = s.id)
        found == {rows[i].ticker : i \in 1..Len(rows)}
        Total(ticker) ==
            LET Part(h) == IF h.ticker = ticker THEN h.value ELSE 0
            IN SumOver(Part, rows, 1)
        ordered == CHOOSE s \in [1..Cardinality(found) -> found] :
                       /\ \A x \in found : \E i \in DOMAIN s : s[i] = x
                       /\ \A i, j \in DOMAIN s : i < j => Total(s[i]) >= Total(s[j])
    IN SubSeq(ordered, 1, Min(min_holdings, Len(ordered)))

\* calculate_correlation_matrix(days, min_holdings); aligned is the frame
\* whose columns are correlated
calculate_correlation_matrix(cutoff_date, min_holdings) ==
    /\ ncalls < MaxCalls
    /\ ncalls' = ncalls + 1
    /\ LET tickers == TopHoldings(min_holdings)
           kept == {tickers[i] : i \in {j \in 1..Len(tickers) :
                       Len(get_holding_returns(tickers[j], cutoff_date)) >= 2}}
           returns_dict == [t \in kept |-> get_holding_returns(t, cutoff_date)]
           returns_df == AlignedFrame(returns_dict)
           args == [cutoff_date |-> cutoff_date, min_holdings |-> min_holdings]
       IN IF Len(tickers) < 2
          THEN last' = Call("calculate_correlation_matrix", args, "none",
                            [tickers |-> Range(tickers),
                             message |-> "Not enough holdings for correlation analysis",
                             data_points |-> 0, aligned |-> <<>>],
                            TRUE)
          ELSE IF Len(returns_df) < 2 \/ Cardinality(kept) < 2
          THEN last' = Call("calculate_correlation_matrix", args, "none",
                            [tickers |-> kept,
                             message |-> "Insufficient data for correlation analysis",
                             data_points |-> 0, aligned |-> <<>>],
                            TRUE)
          ELSE last' = Call("calculate_correlation_matrix", args, "none",
                            [tickers |-> kept, message |-> "",
                             data_points |-> Len(returns_df),
                             aligned |-> returns_df],
                            TRUE)
    /\ UNCHANGED <<cbVars, infVars, storeVars, sqlite3, cache>>

\* the days of the price history
RiskDays == 1..(MaxDate + 2)

\* the sequence of the elements of a set of days, ascending
RECURSIVE Ascending(_)
Ascending(days) ==
    IF days = {} THEN <<>>
    ELSE LET d == CHOOSE x \in days : \A y \in days : x <= y
         IN <<d>> \o Ascending(days \ {d})

\* the price of a stock and the close of the benchmark on a day
PriceOn(ticker, day) == IF ticker = "AAPL" THEN 100 + day * day ELSE 200 + 3 * day
CloseOn(day) == 50 + day

\* one snapshot on each of the days, taken by the collector
SnapshotsOn(days) ==
    LET ds == Ascending(days)
    IN [i \in 1..Len(ds) |-> SnapshotRow(i, "iso", ds[i], 1000 + 10 * ds[i] * ds[i])]

\* AAPL held in every snapshot, MSFT in the snapshots of msft_days
HoldingsOn(days, msft_days) ==
    LET ds == Ascending(days)
        RowsOf(i) ==
            <<HoldingRow(i, "A1", "AAPL", 1, PriceOn("AAPL", ds[i]))>>
            \o (IF ds[i] \in msft_days
                THEN <<HoldingRow(i, "A1", "MSFT", 1, PriceOn("MSFT", ds[i]))>>
                ELSE <<>>)
        RECURSIVE From(_)
        From(i) == IF i > Len(ds) THEN <<>> ELSE RowsOf(i) \o From(i + 1)
    IN From(1)

\* one close of the benchmark for each of the days (UNIQUE(benchmark_id, date))
BenchmarkOn(days) ==
    LET ds == Ascending(days)
    IN [i \in 1..Len(ds) |-> [date |-> DateString(ds[i]), close_price |-> CloseOn(ds[i])]]

InitRisk ==
    /\ sqlite3 = sqlite3_names
    /\ cache = NoCache
    /\ self_method = "FIFO"
    /\ cost_basis = <<>>
    /\ schema_version = 2
    /\ ncalls = 0
    /\ last = NoCall
    /\ \E days \in SUBSET RiskDays :
         /\ snapshots = SnapshotsOn(days)
         /\ \E msft_days \in SUBSET days : holdings = HoldingsOn(days, msft_days)
    /\ inferred = NoComparison
    /\ transactions = <<>>
    /\ \E days \in SUBSET RiskDays : benchmark_data = BenchmarkOn(days)

NextRisk ==
    \/ \E d \in {1, 2} : calculate_beta(DateString(d))
    \/ \E d \in {1, 2}, min_holdings \in {1, 5} :
          calculate_correlation_matrix(DateString(d), min_holdings)

SpecRisk == InitRisk /\ [][NextRisk]_vars

----------------------------------------------------------------------------
(* RiskAnalytics: maximum drawdown *)

\* a date the report leaves None
NoDate == [encoding |-> "none", day |-> 0, time |-> 0]

\* np.maximum.accumulate(values)[i]
RECURSIVE running_max(_, _)
running_max(values, i) ==
    IF i = 1 THEN values[1]
    ELSE LET before == running_max(values, i - 1)
         IN IF values[i] > before THEN values[i] ELSE before

\* drawdown[i] = (values[i] - running_max[i]) / running_max[i] * 100
drawdown(values, i) ==
    <<(values[i] - running_max(values, i)) * 100, running_max(values, i)>>

RatLess(a, b) == a[1] * b[2] < b[1] * a[2]

\* np.argmin(drawdown): the first index of the least drawdown
argmin_drawdown(values) ==
    CHOOSE i \in 1..Len(values) :
        /\ \A j \in 1..Len(values) : ~RatLess(drawdown(values, j), drawdown(values, i))
        /\ \A j \in 1..(i - 1) : RatLess(drawdown(values, i), drawdown(values, j))

\* np.argmax(running_max[:max_dd_idx + 1] == running_max[max_dd_idx]): the
\* first index at which the running maximum has the value it has at the trough
PeakIndex(values, max_dd_idx) ==
    CHOOSE i \in 1..max_dd_idx :
        /\ running_max(values, i) = running_max(values, max_dd_idx)
        /\ \A j \in 1..(i - 1) :
              running_max(values, j) # running_max(values, max_dd_idx)

\* a search for the recovery that starts after the peak
RecoveryIndex_after_peak(values, max_dd_idx, peak_idx) ==
    LET later == {i \in (peak_idx + 1)..Len(values) : values[i] >= values[peak_idx]}
    IN IF later = {} THEN 0 ELSE CHOOSE i \in later : \A j \in later : i <= j

\* the loop over range(max_dd_idx + 1, len(values)): the first index after
\* the trough whose value is at least the peak value, 0 for None
RecoveryIndex(values, max_dd_idx, peak_idx) ==
    LET later == {i \in (max_dd_idx + 1)..Len(values) : values[i] >= values[peak_idx]}
    IN IF later = {} THEN 0 ELSE CHOOSE i \in later : \A j \in later : i <= j

\* the rows of the SELECT of calculate_max_drawdown
SnapshotsSince(cutoff_date) ==
    SortedByTimestamp(
        SelectSeq(snapshots, LAMBDA s : StringLeq(cutoff_date, s.timestamp)))

\* calculate_max_drawdown(days)
calculate_max_drawdown(cutoff_date) ==
    /\ ncalls < MaxCalls
    /\ ncalls' = ncalls + 1
    /\ LET df == SnapshotsSince(cutoff_date)
           values == [i \in 1..Len(df) |-> df[i].total_value]
           dates == [i \in 1..Len(df) |-> df[i].timestamp]
           max_dd_idx == argmin_drawdown(values)
           peak_idx == PeakIndex(values, max_dd_idx)
           recovery_idx == RecoveryIndex(values, max_dd_idx, peak_idx)
           args == [cutoff_date |-> cutoff_date]
       IN IF Len(df) < 2
          THEN last' = Call("calculate_max_drawdown", args, "none",
                            [max_drawdown_percent |-> Rat(0),
                             max_drawdown_amount |-> 0,
                             peak_date |-> NoDate, trough_date |-> NoDate,
                             recovery_date |-> NoDate, data_points |-> 0],
                            TRUE)
          ELSE last' = Call("calculate_max_drawdown", args, "none",
                            [max_drawdown_percent |-> drawdown(values, max_dd_idx),
                             max_drawdown_amount |-> values[max_dd_idx] - values[peak_idx],
                             peak_date |-> dates[peak_idx],
                             trough_date |-> dates[max_dd_idx],
                             recovery_date |-> IF recovery_idx = 0 THEN NoDate
                                               ELSE dates[recovery_idx],
                             data_points |-> Len(df)],
                            TRUE)
    /\ UNCHANGED <<cbVars, infVars, storeVars, sqlite3, cache>>

\* the positive total values of the drawdown series
DrawdownValues == {80, 100, 120}

\* series of snapshots on distinct days, the timestamps of one encoding
DrawdownSeries ==
    UNION {{[i \in 1..Cardinality(days) |->
                SnapshotRow(i, e, Ascending(days)[i], v[i])] :
               v \in [1..Cardinality(days) -> DrawdownValues],
               e \in {"iso", "compact"}} :
           days \in SUBSET RiskDays}

InitDrawdown ==
    /\ sqlite3 = sqlite3_names
    /\ cache = NoCache
    /\ self_method = "FIFO"
    /\ cost_basis = <<>>
    /\ schema_version = 2
    /\ ncalls = 0
    /\ last = NoCall
    /\ snapshots \in DrawdownSeries
    /\ holdings = <<>>
    /\ inferred = NoComparison
    /\ transactions = <<>>
    /\ benchmark_data = <<>>

NextDrawdown ==
    \E d \in {1, 2} : calculate_max_drawdown(DateString(d))

SpecDrawdown == InitDrawdown /\ [][NextDrawdown]_vars

----------------------------------------------------------------------------
(* PortfolioOptimizer.  A weight is a whole number of WeightUnit-ths: 1.0 is *)
(* WeightUnit, the 0.001 below which optimize_sharpe leaves a weight out is  *)
(* WeightUnit / 1000, the 0.01 of the recommendations WeightUnit / 100.      *)

WeightUnit == 10000

\* the sum of the values of a function of finite domain
RECURSIVE SumOfValues(_)
SumOfValues(f) ==
    IF DOMAIN f = {} THEN 0
    ELSE LET x == CHOOSE y \in DOMAIN f : TRUE
         IN f[x] + SumOfValues([y \in DOMAIN f \ {x} |-> f[y]])

\* the columns of the frame _get_holdings_history returns: the top holdings
\* of the latest snapshot, each with its prices since the cutoff; no column
\* when the latest snapshot is older than the cutoff
PriceColumns(cutoff_date, min_holdings) ==
    LET tickers == TopHoldings(min_holdings)
    IN {tickers[i] : i \in {j \in 1..Len(tickers) :
                               HoldingHistory(tickers[j], cutoff_date) # <<>>}}

\* the weights result.x may hold for a universe when minimize reports
\* success: each within the bounds (0, 1), their sum 1 (the constraint)
WeightGrid == {0, 5, 50, 5000, 9950, 9995, 10000}

FeasibleWeights(universe) ==
    {x \in [universe -> WeightGrid] : SumOfValues(x) = WeightUnit}

\* the results minimize may return for a universe: no success, or success
\* with feasible weights x
SolverResults(universe) ==
    {[success |-> FALSE, x |-> <<>>]}
    \cup {[success |-> TRUE, x |-> x] : x \in FeasibleWeights(universe)}

IsSolverResult(universe, result) ==
    result.success => /\ DOMAIN result.x = universe
                      /\ \A t \in universe : result.x[t] \in WeightGrid
                      /\ SumOfValues(result.x) = WeightUnit

\* what optimize_sharpe returns for a result of minimize
SharpeResult(universe, result) ==
    IF Cardinality(universe) < 2
    THEN [success |-> FALSE, message |-> "Insufficient data for optimization",
          weights |-> <<>>, tickers |-> {}]
    ELSE IF ~result.success
    THEN [success |-> FALSE, message |-> "Optimization failed",
          weights |-> <<>>, tickers |-> {}]
    ELSE LET significant == {t \in universe : result.x[t] * 1000 > WeightUnit}
         IN [success |-> TRUE, message |-> "",
             weights |-> [t \in significant |-> result.x[t]],
             tickers |-> universe]

\* optimize_sharpe(days, min_holdings)
optimize_sharpe(cutoff_date, min_holdings, result) ==
    /\ ncalls < MaxCalls
    /\ ncalls' = ncalls + 1
    /\ IsSolverResult(PriceColumns(cutoff_date, min_holdings), result)
    /\ last' = Call("optimize_sharpe",
                    [cutoff_date |-> cutoff_date, min_holdings |-> min_holdings,
                     result |-> result],
                    "none",
                    SharpeResult(PriceColumns(cutoff_date, min_holdings), result),
                    TRUE)
    /\ UNCHANGED <<cbVars, infVars, storeVars, sqlite3, cache>>

\* SUM(h.value) of the latest snapshot for the tickers of the universe
CurrentValues(universe) ==
    LET latest == {s \in Range(snapshots) :
                      \A o \in Range(snapshots) : StringLeq(o.timestamp, s.timestamp)}
        rows == SelectSeq(holdings,
                          LAMBDA h : /\ \E s \in latest : h.snapshot_id = s.id
                                     /\ h.ticker \in universe)
        Total(ticker) ==
            LET Part(h) == IF h.ticker = ticker THEN h.value ELSE 0
            IN SumOver(Part, rows, 1)
    IN [t \in {rows[i].ticker : i \in 1..Len(rows)} |-> Total(t)]

\* the recommendation of one ticker of optimal['weights'], or none: diff is
\* target - current = target / WeightUnit - value / total_value, and amount
\* is abs(diff) * total_value with total_value cancelled
Recommendation(ticker, target, value, total_value) ==
    LET diff == <<target * total_value - value * WeightUnit, WeightUnit * total_value>>
        size == <<Abs(diff[1]), diff[2]>>
    IN IF total_value > 0 /\ RatLess(<<1, 100>>, size)
       THEN {[ticker |-> ticker,
              action |-> IF diff[1] > 0 THEN "BUY" ELSE "SELL",
              amount |-> <<Abs(diff[1]), WeightUnit>>]}
       ELSE IF total_value <= 0 /\ target * 100 > WeightUnit
       THEN {[ticker |-> ticker, action |-> "BUY", amount |-> Rat(0)]}
       ELSE {}

\* get_rebalancing_recommendations(days, min_holdings)
get_rebalancing_recommendations(cutoff_date, min_holdings, result) ==
    /\ ncalls < MaxCalls
    /\ ncalls' = ncalls + 1
    /\ IsSolverResult(PriceColumns(cutoff_date, min_holdings), result)
    /\ LET optimal == SharpeResult(PriceColumns(cutoff_date, min_holdings), result)
           current == CurrentValues(optimal.tickers)
           total_value == SumOfValues(current)
           args == [cutoff_date |-> cutoff_date, min_holdings |-> min_holdings,
                    result |-> result]
       IN IF ~optimal.success
          THEN last' = Call("get_rebalancing_recommendations", args, "none",
                            [success |-> FALSE, message |-> optimal.message,
                             universe |-> {}, total_value |-> 0,
                             recommendations |-> {}],
                            TRUE)
          ELSE last' = Call("get_rebalancing_recommendations", args, "none",
                            [success |-> TRUE, message |-> "",
                             universe |-> optimal.tickers,
                             total_value |-> total_value,
                             recommendations |->
                                 UNION {Recommendation(
                                            t, optimal.weights[t],
                                            IF t \in DOMAIN current THEN current[t] ELSE 0,
                                            total_value) :
                                        t \in DOMAIN optimal.weights}],
                            TRUE)
    /\ UNCHANGED <<cbVars, infVars, storeVars, sqlite3, cache>>

OptimizerTickers == {"AAPL", "MSFT", "GOOG"}

\* the price of a share of the optimizer's stocks
SharePrice(ticker) ==
    CASE ticker = "AAPL" -> 100
      [] ticker = "MSFT" -> 110
      [] OTHER -> 120

\* the holdings rows of one snapshot for the shares held of each stock
RECURSIVE PositionRows(_, _, _)
PositionRows(snapshot_id, tickers, shares) ==
    IF tickers = {} THEN <<>>
    ELSE LET t == CHOOSE y \in tickers : TRUE
         IN (IF shares[t] = 0 THEN <<>>
             ELSE <<HoldingRow(snapshot_id, "A1", t, shares[t], SharePrice(t))>>)
            \o PositionRows(snapshot_id, tickers \ {t}, shares)

\* two snapshots; the first holds one share of every stock, the second no
\* share or one share of each, or three shares of AAPL
InitOptimizer ==
    /\ sqlite3 = sqlite3_names
    /\ cache = NoCache
    /\ self_method = "FIFO"
    /\ cost_basis = <<>>
    /\ schema_version = 2
    /\ ncalls = 0
    /\ last = NoCall
    /\ snapshots = SnapshotsOn({1, 2})
    /\ \E shares \in {f \in [OptimizerTickers -> {0, 1, 3}] :
                         \A t \in OptimizerTickers : f[t] = 3 => t = "AAPL"} :
          holdings = PositionRows(1, OptimizerTickers, [t \in OptimizerTickers |-> 1])
                     \o PositionRows(2, OptimizerTickers, shares)
    /\ inferred = NoComparison
    /\ transactions = <<>>
    /\ benchmark_data = <<>>

\* the results of minimize for the universes of the stocks
AllSolverResults == UNION {SolverResults(u) : u \in SUBSET OptimizerTickers}

NextOptimizer ==
    \/ \E d \in {1, 3}, min_holdings \in {2, 5}, result \in AllSolverResults :
          optimize_sharpe(DateString(d), min_holdings, result)
    \/ \E d \in {1, 3}, min_holdings \in {2, 5}, result \in AllSolverResults :
          get_rebalancing_recommendations(DateString(d), min_holdings, result)

SpecOptimizer == InitOptimizer /\ [][NextOptimizer]_vars

----------------------------------------------------------------------------
(* A snapshot series with timestamps of both encodings *)

\* AAPL held in one account, or not at all
MixedRows(snapshot_id) ==
    {<<>>} \cup {<<HoldingRow(snapshot_id, "A1", "AAPL", q, LastPrice(snapshot_id))>> :
                    q \in {5, 8}}

\* three snapshots taken on three successive days, each stored by the legacy
\* importer (compact timestamp) or by the collector (ISO timestamp)
InitMixed ==
    /\ sqlite3 = sqlite3_names
    /\ cache = NoCache
    /\ self_method = "FIFO"
    /\ cost_basis = <<>>
    /\ schema_version = 2
    /\ ncalls = 0
    /\ last = NoCall
    /\ \E e \in [1..3 -> {"iso", "compact"}] :
          snapshots = [i \in 1..3 |-> [id |-> i, timestamp |-> Timestamp(e[i], i, i)]]
    /\ holdings \in {h1 \o h2 \o h3 : h1 \in MixedRows(1), h2 \in MixedRows(2),
                                      h3 \in MixedRows(3)}
    /\ inferred = NoComparison
    /\ transactions = <<>>
    /\ benchmark_data = <<>>

SpecMixed == InitMixed /\ [][NextInferAll]_vars

----------------------------------------------------------------------------
(* DataEnricher *)

\* DataEnricher(delay, max_retries): max_retries of the enricher in use
max_retries == 3

\* the tickers enrich_ticker answers without a fetch
CashTickers == {"N/A", "FZDXX", "FDRXX", "SPAXX", "SPRXX", "FDLXX", "FZFXX"}

CashInfo == [company_name |-> "Cash/Money Market", sector |-> "Cash"]

\* the stock_info built from what Yahoo Finance returned
FetchedInfo(ticker) == [company_name |-> "longName", sector |-> "Technology"]

\* default_info
DefaultInfo(ticker) == [company_name |-> ticker, sector |-> "Unknown"]

\* what the attempts of a fetch may do: return the info, raise an error whose
\* message names a rate limit, or raise another error
FetchOutcomes == {"info", "Rate limit", "API Error"}

\* the for loop of enrich_ticker from attempt on (attempt counts from 0):
\* the attempts made and whether the info was fetched
RECURSIVE FetchLoop(_, _)
FetchLoop(outcomes, attempt) ==
    IF attempt >= max_retries THEN [attempts |-> attempt, fetched |-> FALSE]
    ELSE IF outcomes[attempt + 1] = "info"
    THEN [attempts |-> attempt + 1, fetched |-> TRUE]
    ELSE IF outcomes[attempt + 1] = "Rate limit"
    THEN FetchLoop(outcomes, attempt + 1)
    ELSE [attempts |-> attempt + 1, fetched |-> FALSE]

\* enrich_ticker(ticker, db = None); outcomes[i] is what the i-th attempt to
\* read yf.Ticker(ticker).info does
enrich_ticker(ticker, outcomes) ==
    /\ ncalls < MaxCalls
    /\ ncalls' = ncalls + 1
    /\ LET args == [ticker |-> ticker, outcomes |-> outcomes]
           run == FetchLoop(outcomes, 0)
       IN IF ticker \in CashTickers
          THEN /\ last' = Call("enrich_ticker", args, "none",
                               [info |-> CashInfo, attempts |-> 0], TRUE)
               /\ cache' = cache
          ELSE IF ticker \in DOMAIN cache
          THEN /\ last' = Call("enrich_ticker", args, "none",
                               [info |-> cache[ticker], attempts |-> 0], TRUE)
               /\ cache' = cache
          ELSE LET info == IF run.fetched THEN FetchedInfo(ticker)
                           ELSE DefaultInfo(ticker)
               IN /\ last' = Call("enrich_ticker", args, "none",
                                  [info |-> info, attempts |-> run.attempts], TRUE)
                  /\ cache' = [t \in DOMAIN cache \cup {ticker} |->
                                  IF t = ticker THEN info ELSE cache[t]]
    /\ UNCHANGED <<cbVars, infVars, storeVars, sqlite3>>

EnrichedTickers == {"AAPL", "MSFT", "SPAXX"}

InitEnricher ==
    /\ sqlite3 = sqlite3_names
    /\ cache = NoCache
    /\ self_method = "FIFO"
    /\ cost_basis = <<>>
    /\ schema_version = 2
    /\ ncalls = 0
    /\ last = NoCall
    /\ snapshots = <<>>
    /\ holdings = <<>>
    /\ inferred = NoComparison
    /\ transactions = <<>>
    /\ benchmark_data = <<>>

NextEnricher ==
    \E ticker \in EnrichedTickers, outcomes \in [1..max_retries -> FetchOutcomes] :
        enrich_ticker(ticker, outcomes)

SpecEnricher == InitEnricher /\ [][NextEnricher]_vars

----------------------------------------------------------------------------
(* Snapshots that arrive between the runs of the inference *)

\* the stocks an arriving snapshot holds: AAPL in account A1, or nothing
ArrivingRows(snapshot_id) ==
    {<<>>} \cup {<<HoldingRow(snapshot_id, "A1", "AAPL", q, LastPrice(snapshot_id))>> :
                    q \in {5, 8}}

\* Database.save_snapshot(data): the snapshot row is inserted with the time
\* of the call (datetime.now().isoformat(), later than every stored
\* timestamp, on the day of the newest snapshot or a later day), its id is
\* the next rowid, and the holdings rows of its stocks are inserted with it
save_snapshot(day, rows) ==
    /\ ncalls < MaxCalls - 1
    /\ ncalls' = ncalls + 1
    /\ \A i \in 1..Len(snapshots) : snapshots[i].timestamp.day <= day
    /\ LET snapshot_id == Len(snapshots) + 1
       IN /\ rows \in ArrivingRows(snapshot_id)
          /\ snapshots' = Append(snapshots,
                                 [id |-> snapshot_id,
                                  timestamp |-> Timestamp("iso", day, snapshot_id)])
          /\ holdings' = holdings \o rows
          /\ last' = Call("save_snapshot", [day |-> day], "none", snapshot_id, FALSE)
    /\ UNCHANGED <<cbVars, inferred, storeVars, sqlite3, cache>>

\* a database of two snapshots, with no transaction stored yet
InitArrivals ==
    /\ sqlite3 = sqlite3_names
    /\ cache = NoCache
    /\ self_method = "FIFO"
    /\ cost_basis = <<>>
    /\ schema_version = 2
    /\ ncalls = 0
    /\ last = NoCall
    /\ \E d2 \in Dates :
         snapshots = <<[id |-> 1, timestamp |-> Timestamp("iso", 1, 1)],
                       [id |-> 2, timestamp |-> Timestamp("iso", d2, 2)]>>
    /\ holdings \in {h1 \o h2 : h1 \in ArrivingRows(1), h2 \in ArrivingRows(2)}
    /\ inferred = NoComparison
    /\ transactions = <<>>
    /\ benchmark_data = <<>>

NextArrivals ==
    \/ \E day \in Dates, rows \in UNION {ArrivingRows(k) : k \in 1..(MaxCalls + 2)} :
          save_snapshot(day, rows)
    \/ infer_transactions_from_snapshots(TRUE, TRUE)

\* of the steps of NextArrivals those of an infer-then-save run with
\* skip_existing=true are the steps that count a call and add no snapshot,
\* and a run can be made while a call is left
RunStep ==
    /\ ncalls < MaxCalls
    /\ ncalls' = ncalls + 1
    /\ snapshots' = snapshots

\* the runs keep being made: a run that can be made is made at some time
SpecArrivals ==
    InitArrivals /\ [][NextArrivals]_vars /\ WF_<<ncalls, snapshots>>(RunStep)

----------------------------------------------------------------------------
(* Properties of the cost-basis calculator *)

\* a step that is a call of operation op
Step(op) == ncalls' = ncalls + 1 /\ last'.op = op

StoredTickers == {"AAPL", "MSFT"}

\* sum of remaining_quantity over the lots, open and closed, of one account and ticker
LotSum(rows, account_id, ticker) ==
    LET Part(row) == IF row.account_id = account_id /\ row.ticker = ticker
                     THEN row.remaining_quantity ELSE 0
    IN SumOver(Part, rows, 1)

\* sum of remaining_quantity over the open lots record_sale may draw on
OpenRemaining(rows, ticker, account_id) ==
    LET Part(row) == IF LotMatches(row, ticker, account_id, FALSE)
                     THEN row.remaining_quantity ELSE 0
    IN SumOver(Part, rows, 1)

\* quantity a successful sale took from the lots of one account and ticker
SoldFrom(rows, call, account_id, ticker) ==
    IF call.op = "record_sale" /\ call.raised = "none"
    THEN LET Part(a) == IF /\ rows[a.lot_id].account_id = account_id
                           /\ rows[a.lot_id].ticker = ticker
                        THEN a.quantity_sold ELSE 0
         IN SumOver(Part, call.result.lots_affected, 1)
    ELSE 0

\* quantity a create_lot call acquires for one account and ticker
BoughtFor(call, account_id, ticker) ==
    IF /\ call.op = "create_lot"
       /\ call.args.account_id = account_id
       /\ upper(call.args.ticker) = ticker
    THEN call.args.quantity ELSE 0

\* C1: for every account and ticker, every create_lot call (BUY) raises the sum
\* of remaining_quantity over all its lots by the quantity acquired, every
\* record_sale call (SELL) that succeeds lowers it by the quantity sold and a
\* failed record_sale leaves it alone, so that the sum always equals the
\* quantity acquired minus the quantity sold.
C1_LotSumFollowsHistory ==
    [][((Step("create_lot") \/ Step("record_sale")) /\ schema_version = 2) =>
          \A a \in Accounts, t \in StoredTickers :
              LotSum(cost_basis', a, t) =
                  LotSum(cost_basis, a, t) + BoughtFor(last', a, t)
                      - SoldFrom(cost_basis, last', a, t)]_vars

\* C2: a record_sale of more than the open lots of the ticker (and account)
\* hold fails with the insufficient-lots error (a ValueError of record_sale)
\* and leaves every lot as it was.
C2_OversellFailsUnchanged ==
    [][(/\ Step("record_sale")
        /\ schema_version = 2
        /\ last'.args.quantity_sold >
               OpenRemaining(cost_basis, last'.args.ticker, last'.args.account_id))
       => (last'.raised = "ValueError" /\ cost_basis' = cost_basis)]_vars

\* the open lots in the order of a method: oldest first (FIFO), newest first (LIFO)
MethodOrders(method, rows, ticker, account_id) ==
    IF method = "LIFO"
    THEN {Reversed(o) : o \in get_lots(rows, ticker, account_id, FALSE)}
    ELSE get_lots(rows, ticker, account_id, FALSE)

\* the ledger after quantity q was taken from the lots in the order given,
\* each lot giving min(quantity still needed, its remaining_quantity)
TakenInOrder(rows, order, q) == ApplyUpdates(rows, SaleLoop(order, 1, q).updates)

\* C3: a record_sale that the open lots can cover takes the shares from the
\* open lots in the order of the calculator's method, oldest acquisition_date
\* first under FIFO and newest first under LIFO, a lot being drawn on only
\* when every lot before it in that order is used up.
C3_SaleFollowsMethodOrder ==
    [][(/\ Step("record_sale")
        /\ schema_version = 2
        /\ self_method \in {"FIFO", "LIFO"}
        /\ last'.args.quantity_sold > 0
        /\ last'.args.quantity_sold <=
               OpenRemaining(cost_basis, last'.args.ticker, last'.args.account_id))
       => \E order \in MethodOrders(self_method, cost_basis, last'.args.ticker,
                                    last'.args.account_id) :
              cost_basis' = TakenInOrder(cost_basis, order, last'.args.quantity_sold)]_vars

QuantitySoldOf(a) == a.quantity_sold

\* C4: a FIFO record_sale that the open lots can cover succeeds, reports as
\* cost_basis the sum over the open lots in acquisition order of quantity
\* taken x cost_per_share, leaves each lot reduced by the quantity taken from
\* it, and the quantities of lots_affected sum to the quantity sold (50 from
\* lots 30 @ 10.00 and 40 @ 12.00: cost basis 540.00, lots left at 0 and 20).
C4_FifoSaleCostBasis ==
    [][(/\ Step("record_sale")
        /\ schema_version = 2
        /\ self_method = "FIFO"
        /\ last'.args.quantity_sold > 0
        /\ last'.args.quantity_sold <=
               OpenRemaining(cost_basis, last'.args.ticker, last'.args.account_id))
       => /\ last'.raised = "none"
          /\ \E order \in get_lots(cost_basis, last'.args.ticker,
                                   last'.args.account_id, FALSE) :
               /\ last'.result.cost_basis =
                      CostLoop(order, 1, last'.args.quantity_sold)
               /\ cost_basis' = TakenInOrder(cost_basis, order, last'.args.quantity_sold)
          /\ SumOver(QuantitySoldOf, last'.result.lots_affected, 1) =
                 last'.args.quantity_sold]_vars

\* C5: create_lot with a positive quantity and cost_per_share, on a database
\* that has the cost_basis table, completes without error, adds exactly one
\* lot, open, with remaining_quantity = quantity and total_cost = quantity x
\* cost_per_share, returns its id and leaves every other lot unchanged.
C5_CreateLotAddsOneOpenLot ==
    [][(/\ Step("create_lot")
        /\ schema_version = 2
        /\ last'.args.quantity > 0
        /\ last'.args.cost_per_share > 0)
       => /\ last'.raised = "none"
          /\ Len(cost_basis') = Len(cost_basis) + 1
          /\ SubSeq(cost_basis', 1, Len(cost_basis)) = cost_basis
          /\ LET lot == cost_basis'[Len(cost_basis')]
             IN /\ lot.remaining_quantity = last'.args.quantity
                /\ lot.quantity = last'.args.quantity
                /\ lot.total_cost = last'.args.quantity * last'.args.cost_per_share
                /\ ~lot.is_closed
                /\ lot.account_id = last'.args.account_id
                /\ last'.result = lot.id]_vars

\* every lot is closed exactly when nothing of it remains
ClosedIffNothingRemains(rows) ==
    \A i \in 1..Len(rows) : rows[i].is_closed <=> (rows[i].remaining_quantity = 0)

\* C6: in every state every lot has is_closed true exactly when its
\* remaining_quantity is zero, and that includes the lot that a create_lot
\* call makes, whatever the quantity it is called with.
C6_ClosedIffNothingRemains ==
    [][/\ ClosedIffNothingRemains(cost_basis')
       /\ (Step("create_lot") /\ schema_version = 2) =>
              /\ Len(cost_basis') = Len(cost_basis) + 1
              /\ cost_basis'[Len(cost_basis')].remaining_quantity = last'.args.quantity]_vars

\* lot i of the ledger before a step is still there after it, with a
\* remaining_quantity that did not grow and lies in [0, quantity], and is
\* still closed if it was closed
LotKept(before, after, i) ==
    /\ i <= Len(after)
    /\ after[i].id = before[i].id
    /\ after[i].remaining_quantity <= before[i].remaining_quantity
    /\ after[i].remaining_quantity >= 0
    /\ after[i].remaining_quantity <= after[i].quantity
    /\ (before[i].is_closed => after[i].is_closed)

OpenLots(rows, ticker, account_id) ==
    SelectSeq(rows, LAMBDA row : LotMatches(row, ticker, account_id, FALSE))

\* C8: calculate_cost_basis with method AVERAGE returns as total cost basis
\* current_quantity x (sum of total_cost / sum of remaining_quantity) over the
\* open lots, to the cent, and (0, 0) when there is no open lot or the open
\* lots hold nothing.
C8_AverageIsBlendedRate ==
    (/\ last.op = "calculate_cost_basis"
     /\ last.args.calc_method = "AVERAGE"
     /\ schema_version = 2)
    => LET open == OpenLots(cost_basis, last.args.ticker, last.args.account_id)
           shares == SumOver(RemainingOf, open, 1)
           cost == SumOver(TotalCostOf, open, 1)
       IN /\ last.raised = "none"
          /\ IF shares = 0 THEN last.result = <<0, 0>>
             ELSE last.result[1] = quantize(last.args.current_quantity * cost, shares)

\* the method calculate_cost_basis works with: the argument in upper case when
\* one is given and not empty, else the method of the calculator
MethodInEffect(method, configured) ==
    IF method # None /\ method # "" THEN upper(method) ELSE configured

\* C9 (as claimed): a method string other than FIFO, LIFO, AVERAGE (in any
\* case) is rejected with the invalid-method error where it is supplied, by
\* the constructor and by calculate_cost_basis, and the failing call reads and
\* changes no lot.
C9_UnsupportedMethodRejected ==
    [][/\ (Step("construct") /\ upper(last'.args.method) \notin {"FIFO", "LIFO", "AVERAGE"})
            => (last'.raised = "ValueError" /\ cost_basis' = cost_basis)
       /\ (/\ Step("calculate_cost_basis")
           /\ last'.args.method # None
           /\ upper(last'.args.method) \notin {"FIFO", "LIFO", "AVERAGE"})
            => (/\ last'.raised = "ValueError"
                /\ ~last'.queried
                /\ cost_basis' = cost_basis)]_vars

\* C9 (amended): the constructor rejects with ValueError exactly the strings
\* whose upper case is none of FIFO, LIFO, AVERAGE, SPECIFIC_ID, and otherwise
\* configures the upper-cased method; calculate_cost_basis fails with
\* ValueError exactly when the method in effect (its argument in upper case
\* when given and not empty, else the configured method) is none of FIFO,
\* LIFO, AVERAGE, so SPECIFIC_ID is rejected there and not by the constructor;
\* a call failing so reads and changes no lot.
C9_MethodRejection ==
    [][/\ Step("construct") =>
            /\ (last'.raised = "ValueError") <=>
                   (upper(last'.args.method) \notin
                        {"FIFO", "LIFO", "AVERAGE", "SPECIFIC_ID"})
            /\ last'.raised \in {"ValueError", "none"}
            /\ self_method' = IF last'.raised = "none"
                              THEN upper(last'.args.method) ELSE self_method
            /\ cost_basis' = cost_basis
       /\ Step("calculate_cost_basis") =>
            /\ (last'.raised = "ValueError") <=>
                   (MethodInEffect(last'.args.method, self_method) \notin
                        {"FIFO", "LIFO", "AVERAGE"})
            /\ (last'.raised = "ValueError" => ~last'.queried)
            /\ cost_basis' = cost_basis]_vars

\* C9 witness: a calculator configured with SPECIFIC_ID, whose
\* calculate_cost_basis without a method argument was rejected
C9_SpecificIdRejectedLate ==
    /\ self_method = "SPECIFIC_ID"
    /\ last.op = "calculate_cost_basis"
    /\ last.args.method = None
    /\ last.raised = "ValueError"

----------------------------------------------------------------------------
(* Properties of the inference engine *)

PresentIn(held, ticker) == ticker \in DOMAIN held

\* what C10 says compare_snapshots infers for one ticker: no transaction, or
\* the type, quantity and price of the one transaction
ClaimedInference(prev_holdings, curr_holdings, ticker) ==
    LET prev_qty == QuantityIn(prev_holdings, ticker)
        curr_qty == QuantityIn(curr_holdings, ticker)
    IN IF prev_qty = curr_qty THEN <<>>
       ELSE IF ~PresentIn(prev_holdings, ticker)
       THEN <<"buy", curr_qty, curr_holdings[ticker].last_price>>
       ELSE IF ~PresentIn(curr_holdings, ticker)
       THEN <<"sell", prev_qty, prev_holdings[ticker].last_price>>
       ELSE IF curr_qty > prev_qty
       THEN <<"buy", curr_qty - prev_qty, curr_holdings[ticker].last_price>>
       ELSE <<"sell", prev_qty - curr_qty, curr_holdings[ticker].last_price>>

\* C10: a comparison of a snapshot pair never fails and infers for every
\* ticker at most one transaction: none when the quantities are equal, a BUY
\* of the full new quantity at curr's last_price when the ticker is absent in
\* prev, a SELL of the full prior quantity at prev's last_price when it is
\* absent in curr, otherwise a BUY of the increase or a SELL of the decrease
\* at curr's last_price.
C10_OneInferencePerTicker ==
    inferred.called =>
        /\ inferred.raised = "none"
        /\ \A t \in DOMAIN inferred.prev_holdings \cup DOMAIN inferred.curr_holdings :
             LET txs == {x \in inferred.transactions : x.ticker = t}
                 claimed == ClaimedInference(inferred.prev_holdings,
                                             inferred.curr_holdings, t)
             IN /\ Cardinality(txs) <= 1
                /\ (claimed = <<>>) <=> (txs = {})
                /\ \A x \in txs :
                     <<x.transaction_type, x.quantity, x.price_per_share>> = claimed

----------------------------------------------------------------------------
(* Properties of inference runs and of saving *)

\* C11: when a run of the inference whose transactions were saved is followed,
\* on the same snapshots, by a run with skip_existing = true, the second run
\* infers zero transactions and adds no row to table transactions.
C11_SecondRunInfersNothing ==
    [][(/\ last.op = "infer_transactions_from_snapshots"
        /\ last.args.save
        /\ last.raised = "none"
        /\ Step("infer_transactions_from_snapshots")
        /\ last'.args.skip_existing)
       => /\ last'.raised = "none"
          /\ last'.result.inferred_count = 0
          /\ last'.result.transactions = <<>>
          /\ transactions' = transactions]_vars

\* C11 witness: a second run with skip_existing = true, made after a run
\* that saved transactions, skipped their dates and inferred nothing
C11_SecondRunAfterSave ==
    /\ ncalls = 2
    /\ last.op = "infer_transactions_from_snapshots"
    /\ last.args.skip_existing
    /\ last.args.save
    /\ transactions # <<>>
    /\ last.result.skipped_dates > 0
    /\ last.result.inferred_count = 0

\* the dicts of a batch whose INSERT is not rejected, in the order of the batch
Accepted(batch) == SelectSeq(batch, LAMBDA tx : InsertOutcome(tx) = "stored")

FailedPartway(call) ==
    \/ call.raised # "none"
    \/ /\ call.op = "save_inferred_transactions"
       /\ call.result < Len(call.args.transactions)

\* C13: a create_lot, record_sale, sync_from_transactions or
\* save_inferred_transactions call in which a step fails leaves the lots and
\* the transactions of the store exactly as they were before the call.
C13_FailedCallChangesNothing ==
    [][(/\ \/ Step("create_lot")
           \/ Step("record_sale")
           \/ Step("sync_from_transactions")
           \/ Step("save_inferred_transactions")
        /\ FailedPartway(last'))
       => (cost_basis' = cost_basis /\ transactions' = transactions)]_vars

----------------------------------------------------------------------------
(* Properties of the performance engine *)

\* the instant of a stored timestamp or date, whatever its encoding
InstantOf(ts) == fromisoformat(ts)

InstantLeq(a, b) == ~InstantLess(b, a)

\* the transaction's date lies in the sub-period [start_ts, end_ts) of pair i
InSubPeriod(t, i) ==
    /\ InstantLeq(InstantOf(snapshots[i].timestamp), InstantOf(t.transaction_date))
    /\ InstantLess(InstantOf(t.transaction_date), InstantOf(snapshots[i + 1].timestamp))

\* BUY as +amount, SELL as -amount, summed over the sub-period of pair i
FlowsOfSubPeriod(i) ==
    LET Part(t) ==
            IF InSubPeriod(t, i) /\ upper_type(t.transaction_type) \in {"BUY", "SELL"}
            THEN IF upper_type(t.transaction_type) = "BUY"
                 THEN t.total_amount ELSE -t.total_amount
            ELSE 0
    IN SumOver(Part, transactions, 1)

\* the product over the sub-periods from pair i on of 1 + r_i, the
\* sub-periods of zero start value left out
RECURSIVE LinkedSubPeriods(_)
LinkedSubPeriods(i) ==
    IF i > Len(snapshots) - 1 THEN Rat(1)
    ELSE IF snapshots[i].total_value = 0 THEN LinkedSubPeriods(i + 1)
    ELSE RatMul(<<snapshots[i + 1].total_value - FlowsOfSubPeriod(i),
                  snapshots[i].total_value>>,
                LinkedSubPeriods(i + 1))

\* C14: calculate_twr over two or more snapshots subtracts every BUY/SELL
\* transaction dated at or after the first and before the last snapshot in
\* exactly one sub-period, the one whose [start_ts, end_ts) contains its date;
\* the sub-period return is (end - start - flows)/start, sub-periods of zero
\* start value are skipped, and twr is the product of (1 + r_i) minus 1.
C14_TwrSubtractsEachFlowOnce ==
    (last.op = "calculate_twr" /\ Len(snapshots) >= 2) =>
        /\ \A k \in 1..Len(transactions) :
              LET t == transactions[k]
              IN (/\ upper_type(t.transaction_type) \in {"BUY", "SELL"}
                  /\ InstantLeq(InstantOf(snapshots[1].timestamp),
                                InstantOf(t.transaction_date))
                  /\ InstantLess(InstantOf(t.transaction_date),
                                 InstantOf(snapshots[Len(snapshots)].timestamp)))
                 => Cardinality({i \in 1..(Len(snapshots) - 1) :
                                    /\ StringLeq(snapshots[i].timestamp, t.transaction_date)
                                    /\ StringLess(t.transaction_date,
                                                  snapshots[i + 1].timestamp)
                                    /\ InSubPeriod(t, i)}) = 1
        /\ last.result.periods =
               Cardinality({i \in 1..(Len(snapshots) - 1) : snapshots[i].total_value # 0})
        /\ RatEq(last.result.twr, RatSub(LinkedSubPeriods(1), Rat(1)))

\* C15: the annualized_twr of calculate_twr is (1 + TWR)^(365 / d) - 1 with d
\* the number of calendar days between the first and the last snapshot.
C15_AnnualizedByCalendarDays ==
    (last.op = "calculate_twr" /\ "annualized_twr" \in DOMAIN last.result) =>
        LET d == DaysBetween(InstantOf(snapshots[1].timestamp),
                             InstantOf(snapshots[Len(snapshots)].timestamp))
        IN /\ RatEq(last.result.annualized_twr.base, RatAdd(Rat(1), last.result.twr))
           /\ RatEq(last.result.annualized_twr.exponent, <<365, d>>)

\* the entries the cash-flow vector has between the initial and the final
\* value: BUY negative, SELL positive, dated strictly between the two
\* snapshots, in date order
RECURSIVE BuySellFlows(_, _)
BuySellFlows(txs, i) ==
    IF i > Len(txs) THEN <<>>
    ELSE LET t == txs[i]
             when == InstantOf(t.transaction_date)
         IN IF /\ upper_type(t.transaction_type) \in {"BUY", "SELL"}
               /\ InstantLess(InstantOf(snapshots[1].timestamp), when)
               /\ InstantLess(when, InstantOf(snapshots[Len(snapshots)].timestamp))
            THEN <<IF upper_type(t.transaction_type) = "BUY"
                   THEN -t.total_amount ELSE t.total_amount>>
                 \o BuySellFlows(txs, i + 1)
            ELSE BuySellFlows(txs, i + 1)

\* C16: the cash-flow vector calculate_mwr solves over is minus the first
\* snapshot's total_value, one entry per BUY (negative) and per SELL
\* (positive) dated strictly between the first and the last snapshot, and
\* plus the last snapshot's total_value; no other transaction contributes.
C16_CashFlowVectorOfBuysAndSells ==
    (last.op = "calculate_mwr" /\ Len(snapshots) >= 2) =>
        LET cash_flows == last.result.cash_flows
        IN [i \in 1..Len(cash_flows) |-> cash_flows[i].amount]
             = <<-snapshots[1].total_value>>
               \o BuySellFlows(SortedByDate(transactions), 1)
               \o <<snapshots[Len(snapshots)].total_value>>

\* C17: when the root finder does not converge, calculate_mwr does not raise
\* and returns converged = false with mwr = 0.0; it returns converged = true
\* only when the solver converged; and calculate_portfolio_returns over two or
\* more snapshots reports the flag as mwr_converged.
C17_NonConvergenceIsReported ==
    /\ (last.op = "calculate_mwr" /\ Len(snapshots) >= 2) =>
           /\ last.raised = "none"
           /\ last.result.converged = (last.args.solver = "converged")
           /\ (last.args.solver # "converged" => last.result.mwr = "0.0")
    /\ (last.op = "calculate_portfolio_returns" /\ last.args.snapshots_count >= 2) =>
           /\ last.raised = "none"
           /\ last.result.mwr_converged = (last.args.solver = "converged")
           /\ (last.args.solver # "converged" => last.result.mwr = "0.0")

\* the number of snapshots the last operation was given
SnapshotsGiven ==
    IF last.op = "calculate_portfolio_returns" THEN last.args.snapshots_count
    ELSE Len(snapshots)

\* C18: calculate_twr, calculate_mwr and calculate_portfolio_returns given
\* fewer than 2 snapshots report an insufficient-data condition and return no
\* numeric return value.
C18_FewerThanTwoSnapshotsIsExplicit ==
    (/\ last.op \in {"calculate_twr", "calculate_mwr", "calculate_portfolio_returns"}
     /\ SnapshotsGiven < 2)
    => /\ last.raised = "none"
       /\ "error" \in DOMAIN last.result
       /\ DOMAIN last.result \cap {"twr", "mwr"} = {}

\* the keys of the "returns" part of a complete report
ReportKeys ==
    {"simple_return", "twr", "twr_percent", "annualized_twr", "mwr",
     "mwr_percent", "mwr_converged"}

\* C19: calculate_portfolio_returns does not raise, whatever the length of
\* the snapshot series and whatever its total values: it returns a complete
\* report or a not-enough-data result.
C19_PortfolioReturnsNeverCrashes ==
    last.op = "calculate_portfolio_returns" =>
        /\ last.raised = "none"
        /\ \/ "error" \in DOMAIN last.result
           \/ ReportKeys \subseteq DOMAIN last.result

----------------------------------------------------------------------------
(* Properties of the risk engine *)

\* the dates of the observations of a return series
DatesOf(series) == {series[k].date : k \in DOMAIN series}

\* the return series the last operation aligned, by column
SeriesAligned ==
    IF last.op = "calculate_beta"
    THEN [c \in {"portfolio", "benchmark"} |->
             IF c = "portfolio" THEN get_portfolio_returns(last.args.cutoff_date)
             ELSE get_benchmark_returns(last.args.cutoff_date)]
    ELSE [t \in last.result.tickers |->
             get_holding_returns(t, last.args.cutoff_date)]

\* C20: in calculate_beta and calculate_correlation_matrix the observations
\* of one row of the aligned frame all belong to the same date, and the rows
\* are those of the dates every series has an observation for (the inner
\* join on date).
C20_ObservationsPairedByDate ==
    (/\ last.op \in {"calculate_beta", "calculate_correlation_matrix"}
     /\ last.result.aligned # <<>>)
    => LET aligned == last.result.aligned
       IN /\ \A k \in DOMAIN aligned :
                \A c1, c2 \in DOMAIN aligned[k] :
                   aligned[k][c1].date = aligned[k][c2].date
          /\ \A c \in DOMAIN SeriesAligned :
                {aligned[k][c].date : k \in DOMAIN aligned}
                  = {d \in DatesOf(SeriesAligned[c]) :
                        \A o \in DOMAIN SeriesAligned : d \in DatesOf(SeriesAligned[o])}

\* the rows calculate_max_drawdown read at its last call
Window == SnapshotsSince(last.args.cutoff_date)

\* (value - running maximum) / running maximum at row i of the window
Decline(i) ==
    LET values == [k \in 1..Len(Window) |-> Window[k].total_value]
        highest == CHOOSE m \in {values[k] : k \in 1..i} :
                       \A k \in 1..i : values[k] <= m
    IN <<values[i] - highest, highest>>

----------------------------------------------------------------------------
(* Properties of the optimizer *)

\* C22: when optimize_sharpe returns success = true, each weight it returns
\* lies within [0, 1] and the weights it returns sum to 1 within 1e-6.
C22_ReturnedWeightsSumToOne ==
    (last.op = "optimize_sharpe" /\ last.result.success) =>
        LET weights == last.result.weights
        IN /\ \A t \in DOMAIN weights : weights[t] >= 0 /\ weights[t] <= WeightUnit
           /\ Abs(SumOfValues(weights) - WeightUnit) * 1000000 <= WeightUnit

\* C23: get_rebalancing_recommendations emits a recommendation for a ticker
\* of the optimizer's universe exactly when its optimal weight and its current
\* weight differ by more than 0.01: BUY when the optimal weight is larger,
\* SELL when it is smaller, with amount = |difference| x total current value.
C23_RecommendationForEveryMaterialDifference ==
    (last.op = "get_rebalancing_recommendations" /\ last.result.success) =>
        LET universe == last.result.universe
            optimal == last.args.result.x
            current == CurrentValues(universe)
            total == SumOfValues(current)
            ValueOf(t) == IF t \in DOMAIN current THEN current[t] ELSE 0
            \* (optimal weight - current weight) * WeightUnit * total
            Difference(t) == optimal[t] * total - ValueOf(t) * WeightUnit
            Material(t) == Abs(Difference(t)) * 100 > WeightUnit * total
        IN /\ \A t \in universe :
                 Material(t) <=>
                     \E r \in last.result.recommendations : r.ticker = t
           /\ \A r \in last.result.recommendations :
                 /\ r.ticker \in universe
                 /\ r.action = IF Difference(r.ticker) > 0 THEN "BUY" ELSE "SELL"
                 /\ RatEq(r.amount, <<Abs(Difference(r.ticker)), WeightUnit>>)

----------------------------------------------------------------------------
(* Properties of the ledger and of the inference over a series *)

\* TransactionManager.TRANSACTION_TYPES
TRANSACTION_TYPES == {"BUY", "SELL", "DIVIDEND", "FEE", "SPLIT", "TRANSFER"}

\* C24: every row of table transactions has a transaction_type that is
\* exactly one of BUY, SELL, DIVIDEND, FEE, SPLIT, TRANSFER.
C24_StoredTypesAreOfTheSixTypes ==
    \A i \in 1..Len(transactions) :
        transactions[i].transaction_type \in TRANSACTION_TYPES

\* the pairs (prev, curr) the loop of infer_all_transactions compares in a call
\* that finds the rows stored in table transactions: the consecutive
\* snapshots of get_snapshots_chronological, those of an existing date left
\* out when skip_existing is set
PairsCompared(stored, skip_existing) ==
    LET snaps == get_snapshots_chronological(snapshots)
    IN {<<snaps[i], snaps[i + 1]>> :
           i \in {j \in 1..(Len(snaps) - 1) :
                     ~(/\ skip_existing
                       /\ parse_snapshot_date(snaps[j + 1].timestamp)
                              \in ExistingDates(stored))}}

\* C25: in every pair of snapshots the inference compares, the first
\* snapshot's instant precedes the second's and no other snapshot lies between
\* them in time, also when the series holds timestamps of both encodings.
C25_PairsComparedAreChronological ==
    [][Step("infer_transactions_from_snapshots") =>
          \A pair \in PairsCompared(transactions, last'.args.skip_existing) :
              /\ InstantLess(InstantOf(pair[1].timestamp), InstantOf(pair[2].timestamp))
              /\ ~\E s \in Range(snapshots) :
                     /\ InstantLess(InstantOf(pair[1].timestamp), InstantOf(s.timestamp))
                     /\ InstantLess(InstantOf(s.timestamp), InstantOf(pair[2].timestamp))]_vars

----------------------------------------------------------------------------
(* Properties of the enricher *)

\* C26: when enrich_ticker has to fetch a ticker and an attempt among the
\* max_retries attempts would succeed, it makes attempts up to the first such
\* one and returns the fetched data; when every attempt fails it makes
\* exactly max_retries attempts and returns the default values.
C26_FailedFetchIsRetried ==
    [][(/\ Step("enrich_ticker")
        /\ last'.args.ticker \notin CashTickers
        /\ last'.args.ticker \notin DOMAIN cache)
       => LET outcomes == last'.args.outcomes
              succeeding == {i \in 1..max_retries : outcomes[i] = "info"}
          IN /\ last'.raised = "none"
             /\ IF succeeding = {}
                THEN /\ last'.result.attempts = max_retries
                     /\ last'.result.info = DefaultInfo(last'.args.ticker)
                ELSE /\ \A i \in succeeding : last'.result.attempts <= i
                     /\ last'.result.attempts \in succeeding
                     /\ last'.result.info = FetchedInfo(last'.args.ticker)]_vars

----------------------------------------------------------------------------
(* Properties of the inference when a ticker is held in several accounts *)

\* the total quantity of a ticker over the holding rows of a snapshot
TotalQuantity(snapshot_id, ticker) ==
    LET Part(row) == IF row.snapshot_id = snapshot_id /\ row.ticker = ticker
                     THEN row.quantity ELSE 0
    IN SumOver(Part, holdings, 1)

\* C27: a comparison that does not fail infers for a ticker the change of
\* its total quantity over all the holding rows of the two snapshots: no
\* transaction when the totals are equal, else one transaction, a buy of the
\* increase or a sell of the decrease.
C27_TotalQuantityOverAccountsCompared ==
    (inferred.called /\ inferred.raised = "none") =>
        \A t \in {holdings[i].ticker : i \in 1..Len(holdings)} \ {"N/A", None} :
            LET change == TotalQuantity(last.args.curr, t)
                            - TotalQuantity(last.args.prev, t)
                txs == {x \in inferred.transactions : x.ticker = t}
            IN IF change = 0 THEN txs = {}
               ELSE /\ Cardinality(txs) = 1
                    /\ \A x \in txs :
                          /\ x.quantity = Abs(change)
                          /\ upper_type(x.transaction_type)
                               = IF change > 0 THEN "BUY" ELSE "SELL"


----------------------------------------------------------------------------
(* Properties of the synchronisation of lots from the BUY transactions *)

\* the lots sync_from_transactions would have made of a BUY transaction: the
\* lots of its account, ticker, date and quantity
LotsOfBuy(txn) ==
    {k \in 1..Len(cost_basis) :
        /\ cost_basis[k].account_id = txn.account_id
        /\ cost_basis[k].ticker = upper(txn.ticker)
        /\ cost_basis[k].acquisition_date = txn.transaction_date.day
        /\ cost_basis[k].quantity = txn.quantity}

\* the BUY transactions that share account, ticker, date and quantity with txn
BuysLike(txn) ==
    {i \in 1..Len(transactions) :
        /\ transactions[i].transaction_type = "BUY"
        /\ transactions[i].account_id = txn.account_id
        /\ transactions[i].ticker = txn.ticker
        /\ transactions[i].transaction_date = txn.transaction_date
        /\ transactions[i].quantity = txn.quantity}

\* C28: after sync_from_transactions() over all accounts of a ledger whose
\* BUY transactions all carry a price, every BUY transaction has a lot of its
\* own: the call raised nothing and each (account, ticker, date, quantity)
\* has at least as many lots as BUY transactions
C28_EveryBuyHasItsLotAfterSync ==
    (/\ last.op = "sync_from_transactions"
     /\ last.args.account_id = None
     /\ \A i \in 1..Len(transactions) :
            transactions[i].price_per_share # NullPrice) =>
        /\ last.raised = "none"
        /\ \A i \in 1..Len(transactions) :
               transactions[i].transaction_type = "BUY" =>
                   Cardinality(LotsOfBuy(transactions[i])) >=
                       Cardinality(BuysLike(transactions[i]))


----------------------------------------------------------------------------
(* Properties of the runs of the inference between arriving snapshots *)

\* the quantity change of a ticker between snapshot i and the next of the
\* chronological series is represented by a saved inferred transaction
ChangeSaved(snaps, i, t) ==
    LET change == TotalQuantity(snaps[i + 1].id, t) - TotalQuantity(snaps[i].id, t)
    IN change # 0 =>
          \E k \in 1..Len(transactions) :
              /\ transactions[k].source = "snapshot_inference"
              /\ transactions[k].ticker = t
              /\ transactions[k].transaction_date =
                     parse_snapshot_date(snaps[i + 1].timestamp)
              /\ transactions[k].quantity = Abs(change)
              /\ upper_type(transactions[k].transaction_type) =
                     IF change > 0 THEN "BUY" ELSE "SELL"

AllChangesSaved ==
    LET snaps == get_snapshots_chronological(snapshots)
    IN \A i \in 1..(Len(snaps) - 1) :
          \A t \in {holdings[k].ticker : k \in 1..Len(holdings)} :
              ChangeSaved(snaps, i, t)

----------------------------------------------------------------------------
(* Properties of the cost basis of a whole position *)

\* remaining_quantity x cost_per_share of a lot
RemainingCostOf(lot) == lot.remaining_quantity * lot.cost_per_share

\* C30: calculate_cost_basis asked for a current_quantity equal to the total
\* remaining_quantity of the open lots returns, under FIFO, LIFO and AVERAGE
\* alike, the sum over the open lots of remaining_quantity x cost_per_share
\* as total cost basis, to the cent
C30_WholePositionBasisIsMethodIndependent ==
    (/\ last.op = "calculate_cost_basis"
     /\ last.args.calc_method \in {"FIFO", "LIFO", "AVERAGE"}
     /\ schema_version = 2
     /\ last.args.current_quantity =
            SumOver(RemainingOf,
                    OpenLots(cost_basis, last.args.ticker, last.args.account_id), 1))
    => LET open == OpenLots(cost_basis, last.args.ticker, last.args.account_id)
       IN /\ last.raised = "none"
          /\ Abs(last.result[1] - quantize(SumOver(RemainingCostOf, open, 1), 1)) <= 1

====
